---- MODULE Spec2Model ----
(***************************************************************************)
(* OBBPD: the crash-isolation engine of src/OBBPD.py.                      *)
(*                                                                         *)
(* The state is that of isolate_esps from the point where the baseline     *)
(* sanity trial has passed (line 1204): the ledger lists safe / tested /   *)
(* failed, the loop positions of run_batch and of turbo_batch_mode, and    *)
(* the last trial attempt.  Every trial attempt (write the order file,     *)
(* launch, wait, classify) is one action whose outcome is drawn from the   *)
(* outcomes the environment allows.                                        *)
(***************************************************************************)
EXTENDS Integers, Sequences, FiniteSets, TLC

(***************************************************************************)
(* Bounds of the exploration.                                              *)
(***************************************************************************)
MaxBatchSize == 5
MaxEvents == 1
MaxBad == 2
MaxDepBad == 1
MaxTrials == 2
MaxTicks == 2
BigBatch == 20
MaxSize == 250
MaxLines == 4

(***************************************************************************)
(* Configuration: [CorePlugins] required / optional, PATCH_KEYWORDS.       *)
(* The optional patch carries the keyword "patch" in its name, as the      *)
(* default "Unofficial Oblivion Remastered Patch.esp" does.                *)
(***************************************************************************)
REQUIRED_PLUGINS == <<"Oblivion.esm", "Knights.esp">>
OPTIONAL_PATCHES == <<"Patch.esp">>

\* Twenty candidates in lower case: a batch of 20 is split into sub-batches
\* of get_batch_size(20) = 5.
Many ==
  <<"m01.esp", "m02.esp", "m03.esp", "m04.esp", "m05.esp",
    "m06.esp", "m07.esp", "m08.esp", "m09.esp", "m10.esp",
    "m11.esp", "m12.esp", "m13.esp", "m14.esp", "m15.esp",
    "m16.esp", "m17.esp", "m18.esp", "m19.esp", "m20.esp">>

\* The plugin names that occur in the explored order files, in file order.
Master ==
  <<"Oblivion.esm", "DLC.esm", "Knights.esp", "knights.esp", "Patch.esp",
    "A.esp", "B.esp", "C.esp", "D.esp", "Fix.esp">> \o Many

\* str.lower() on the names above.
lower(p) ==
  CASE p = "Oblivion.esm" -> "oblivion.esm"
    [] p = "DLC.esm"      -> "dlc.esm"
    [] p = "Knights.esp"  -> "knights.esp"
    [] p = "knights.esp"  -> "knights.esp"
    [] p = "Patch.esp"    -> "patch.esp"
    [] p = "A.esp"        -> "a.esp"
    [] p = "B.esp"        -> "b.esp"
    [] p = "C.esp"        -> "c.esp"
    [] p = "D.esp"        -> "d.esp"
    [] p = "Fix.esp"      -> "fix.esp"
    [] OTHER              -> p

\* p.endswith(".esp"), case-sensitive.
endswith_esp(p) ==
  p \in {"Knights.esp", "knights.esp", "Patch.esp", "A.esp", "B.esp",
         "C.esp", "D.esp", "Fix.esp", "a.esp", "b.esp", "c.esp", "d.esp",
         "patch.esp", "fix.esp"} \cup {Many[x] : x \in DOMAIN Many}

\* p.lower().endswith((".esp", ".esm"))
is_esp_or_esm(p) ==
  endswith_esp(lower(p)) \/ lower(p) \in {"oblivion.esm", "dlc.esm"}

\* any(k in p.lower() for k in PATCH_KEYWORDS)
has_keyword(p) == lower(p) \in {"patch.esp", "fix.esp"}

(***************************************************************************)
(* List helpers (Python list semantics).                                   *)
(***************************************************************************)
Range(s) == {s[x] : x \in DOMAIN s}

\* x in s
In(x, s) == \E x1 \in DOMAIN s : s[x1] = x

Min(a, b) == IF a < b THEN a ELSE b

\* s[a:b] with 0-based a, b >= a
Slice(s, a, b) == SubSeq(s, a + 1, Min(b, Len(s)))

\* [p for p in s if p not in t]
NotIn(s, t) == SelectSeq(s, LAMBDA p : ~In(p, t))

RECURSIVE dedup_from(_, _, _)
dedup_from(lst, seen, res) ==
  IF lst = <<>> THEN res
  ELSE LET p == Head(lst)
           k == lower(p)
       IN IF k \in seen
            THEN dedup_from(Tail(lst), seen, res)
            ELSE dedup_from(Tail(lst), seen \cup {k}, Append(res, p))

\* first occurrence per lower-cased key, order kept
dedup(lst) == dedup_from(lst, {}, <<>>)

RECURSIVE fromkeys(_, _)
fromkeys(lst, res) ==
  IF lst = <<>> THEN res
  ELSE fromkeys(Tail(lst),
                IF In(Head(lst), res) THEN res ELSE Append(res, Head(lst)))

RECURSIVE chunk_from(_, _, _)
chunk_from(data, size, at) ==
  IF at >= Len(data) THEN <<>>
  ELSE <<Slice(data, at, at + size)>> \o chunk_from(data, size, at + size)

\* [data[i:i+size] for i in range(0, len(data), size)]
chunk(data, size) == chunk_from(data, size, 0)

\* A step function that does not split: the whole batch again.
whole_batch(size) == size

get_batch_size(size) ==
  IF size >= 200 THEN 25
  ELSE IF size >= 150 THEN 20
  ELSE IF size >= 100 THEN 15
  ELSE IF size >= 50 THEN 10
  ELSE IF size >= 20 THEN 5
  ELSE IF size >= 10 THEN 3
  ELSE IF size >= 5 THEN 2
  ELSE 1

(***************************************************************************)
(* Load list of a trial: required + optional + safe + partition, deduped.  *)
(***************************************************************************)
\* A load list that is concatenated and never deduplicated.
load_order_not_deduped(safe_, part) ==
  LET ordered == REQUIRED_PLUGINS \o OPTIONAL_PATCHES
  IN ordered \o NotIn(safe_, ordered) \o part

load_order(safe_, part) ==
  LET ordered == REQUIRED_PLUGINS \o OPTIONAL_PATCHES
  IN dedup(ordered \o NotIn(safe_, ordered) \o part)

\* get_total_plugins: the file's entries, first occurrence per key
get_total_plugins(lines) == dedup(lines)

\* Load list of a re-verification trial.
recheck_order(lines, safe_, plugin) ==
  LET backup_plugins == get_total_plugins(lines)
      safe_in_backup_order == SelectSeq(backup_plugins, LAMBDA p : In(p, safe_))
      ordered == REQUIRED_PLUGINS \o OPTIONAL_PATCHES
  IN dedup(ordered \o NotIn(safe_in_backup_order, ordered) \o <<plugin>>)

(***************************************************************************)
(* Ledger updates.                                                         *)
(***************************************************************************)
\* A faulty extend that appends only the first item: the always-pass
\* property of run_batch (C6) tells it from list.extend.
extend_first_only(lst, items) == lst \o SubSeq(items, 1, Min(1, Len(items)))

\* lst.extend(items)
extend(lst, items) == lst \o items

\* if p not in lst: lst.append(p)
append_new(lst, p) == IF In(p, lst) THEN lst ELSE Append(lst, p)

RECURSIVE extend_new(_, _)
\* for p in items: if p not in lst: lst.append(p)
extend_new(lst, items) ==
  IF items = <<>> THEN lst
  ELSE extend_new(append_new(lst, Head(items)), Tail(items))

(***************************************************************************)
(* Plugin filtering (section 9) and the candidate lists of isolate_esps.   *)
(***************************************************************************)
filter_plugins(all_) ==
  SelectSeq(all_, LAMBDA p : endswith_esp(p) /\ ~In(p, REQUIRED_PLUGINS)
                             /\ ~has_keyword(p))

get_patch_plugins(all_) == SelectSeq(all_, has_keyword)

\* found_required + found_optional (lines 1119-1137)
sanity_plugins(original) ==
  SelectSeq(REQUIRED_PLUGINS, LAMBDA p : In(p, original))
    \o SelectSeq(OPTIONAL_PATCHES, LAMBDA p : In(p, original))

\* lines 1213-1214
all_esp(original) == SelectSeq(fromkeys(original, <<>>), is_esp_or_esm)

\* lines 1216, 1226-1230 with the ledger lists given
initial_to_test(original, safe_, tested_, failed_) ==
  LET tested_lower == {lower(p) : p \in Range(tested_ \o safe_ \o failed_)}
      lst == SelectSeq(filter_plugins(all_esp(original)),
                       LAMBDA p : lower(p) \notin tested_lower)
  IN dedup(NotIn(lst, safe_))

\* lines 1215, 1227, 1231
initial_patch_plugins(original, safe_, tested_, failed_) ==
  LET tested_lower == {lower(p) : p \in Range(tested_ \o safe_ \o failed_)}
      lst == SelectSeq(get_patch_plugins(all_esp(original)),
                       LAMBDA p : lower(p) \notin tested_lower)
  IN dedup(NotIn(lst, safe_))

(***************************************************************************)
(* The order file, as the list of its enabled entries and the list of the  *)
(* ids of its "#<id> #REMOVED BY OBBPD (<time>)" comment lines, and the    *)
(* ids moved to the latest quarantine session, with the choice made at the *)
(* final summary.  The original file holds no comment lines.  The time     *)
(* stamps are not modelled: two removal lines of one id written at         *)
(* different moments are different lines.                                  *)
(* The field finalized counts the calls of finalize_load_order.            *)
(***************************************************************************)
\* write_plugins(current_plugins), lines 261-305: the entries of the
\* original file that are to be written, in the order of the original file,
\* then the required and optional plugins that were not among them
write_plugins(original, current_plugins) ==
  LET detected_required ==
        SelectSeq(REQUIRED_PLUGINS,
                  LAMBDA p : In(p, original) \/ In(p, current_plugins))
      detected_optional ==
        SelectSeq(OPTIONAL_PATCHES,
                  LAMBDA p : In(p, original) \/ In(p, current_plugins))
      full_required == detected_required \o detected_optional
      all_to_write == full_required \o NotIn(current_plugins, full_required)
      from_file == fromkeys(SelectSeq(original, LAMBDA p : In(p, all_to_write)),
                            <<>>)
  IN from_file \o NotIn(full_required, from_file)

\* lines 953-961 and 1029-1037: safe, then the removed block of failed
turbo_final_file(d, safe_, failed_) ==
  [d EXCEPT !.enabled = safe_, !.removed = failed_]

\* finalize_load_order, lines 1281-1350: the plugins to remove are the
\* files of the latest quarantine session
finalize_load_order(d) ==
  LET failed_plugins == d.quarantined
      failed_set == {lower(p) : p \in Range(failed_plugins)}
      enabled == d.enabled
      required_block ==
        SelectSeq(REQUIRED_PLUGINS,
                  LAMBDA p : lower(p) \notin failed_set /\ In(p, enabled))
      optional_block ==
        SelectSeq(OPTIONAL_PATCHES,
                  LAMBDA p : lower(p) \notin failed_set /\ In(p, enabled))
      lower_reqopt ==
        {lower(p) : p \in Range(required_block \o optional_block)}
      other_enabled ==
        SelectSeq(enabled,
                  LAMBDA p : lower(p) \notin failed_set
                             /\ lower(p) \notin lower_reqopt)
  IN [d EXCEPT !.enabled = required_block \o optional_block \o other_enabled,
               !.removed = d.removed \o failed_plugins,
               !.finalized = @ + 1]

(***************************************************************************)
(* State.                                                                  *)
(***************************************************************************)
VARIABLES
  original_plugins,  \* plugin lines of the original order file (the backup)
  BATCH_SIZE,        \* [Settings] batch_size
  TURBO_BATCH_MODE,  \* [Settings] turbo_batch_mode
  env,               \* the environment: oracle and the faults it may raise
  pauses,            \* key presses so far
  faults,            \* write and launch failures so far
  safe, tested, failed,
  to_test, patch_plugins,
  batches,           \* batches run_batch is still to be called on
  remaining,         \* turbo_batch_mode: remaining
  batch, i, sub, j,  \* loop positions: batch, offset of sub, index in sub
  turbo_remaining,   \* partition of the mega trial
  refailed, k,       \* re-verification: refailed, index in failed
  mega_passed,       \* a mega trial has passed (line 946 was reached)
  verified,          \* the re-verification trials made: plugin and outcome
  pc,                \* control position
  trial,             \* the last trial attempt
  game,              \* the external process and the oracle that watches it
  disk,              \* the order file and the latest quarantine session
  step,              \* a call of get_batch_size: size and result (0: none)
  main,              \* the program around the session: startup and end
  logger             \* the log queue, its writer thread and the log file

vars ==
  <<original_plugins, BATCH_SIZE, TURBO_BATCH_MODE, env, pauses, faults, safe, tested,
    failed, to_test, patch_plugins, batches, remaining, batch, i, sub, j,
    turbo_remaining, refailed, k, mega_passed, verified, pc, trial, game, disk,
    step, main, logger>>

config ==
  <<original_plugins, BATCH_SIZE, TURBO_BATCH_MODE, env, game, step, main,
    logger>>
\* unchanged by every action but the mega trial and the re-verification trial
frame == <<config, mega_passed, verified>>
ledger == <<safe, tested, failed>>

\* lines 175-190: the queue is empty, the event is clear and the writer
\* thread has been started.
\*   queue     log_queue, the lines (numbered in the order of the calls of log)
\*   shutdown  log_shutdown is set
\*   thread    position of background_log_writer: loop (the test of the while
\*             loop), get (in log_queue.get), write (a line has been taken),
\*             ended (the loop has ended), killed (daemon thread at exit)
\*   msg       the line taken from the queue (0: none)
\*   file      the lines written to RESULT_LOG
\*   put       the number of calls of log so far
\*   caller    position of the main thread: running, join (in
\*             log_thread.join), returned (shutdown_logging has returned),
\*             exited (the process has exited)
NoLog ==
  [queue |-> <<>>, shutdown |-> FALSE, thread |-> "loop", msg |-> 0,
   file |-> <<>>, put |-> 0, caller |-> "running"]

NoTrial ==
  [kind |-> "none", part |-> <<>>, load |-> <<>>, outcome |-> "none",
   batch |-> <<>>, i |-> 0, j |-> 0]

\* No trial of the oracle has been made and no instance of the game exists.
\*   pc        position of the engine: idle (between trials), grace and watch
\*             (the two loops of wait_and_check_crash), menu (the pause menu
\*             of check_for_manual_pause), exited (sys.exit)
\*   trials    calls of launch_game so far
\*   starting  instances started by Popen whose process get_game_pid does not
\*             find yet
\*   live      instances get_game_pid finds
\*   polls     polls of the grace loop that found no process
\*   ticks     polls of the deadline loop that found the process
\*   seen      a poll of the grace loop found the process
\*   gone      a poll of the deadline loop found no process
\*   key       check_for_manual_pause found a key press
\*   pending   a key has been pressed and not been read (kbhit)
\*   absent    no process was there when the key press was found
\*   closed    force_close_game was called in this trial
\*   verdict   how the last trial ended
NoGame ==
  [pc |-> "idle", trials |-> 0, starting |-> 0, live |-> 0, polls |-> 0,
   ticks |-> 0, seen |-> FALSE, gone |-> FALSE, key |-> FALSE,
   closed |-> FALSE, verdict |-> "none", pending |-> FALSE,
   absent |-> FALSE]

\* The program at the start of a session, line 1205: the startup checks and
\* the sanity trial have passed.
\*   plugin_file      PLUGIN_FILE.exists()
\*   game_exe         GAME_EXE.exists()
\*   finalize_needed  the global finalize_needed
\*   restored         restore_latest_backup has written the order file
\*   sanity           the sanity trial: none (not made), passed, failed
\*   enforced         the enforced load order was accepted (line 1165)
\*   finalized        finalize_load_order was called
Started ==
  [plugin_file |-> TRUE, game_exe |-> TRUE, finalize_needed |-> TRUE,
   restored |-> FALSE, sanity |-> "passed", enforced |-> FALSE,
   finalized |-> FALSE]

(***************************************************************************)
(* The explored order files, each a subsequence of Master:                 *)
(*   the empty file;                                                       *)
(*   one candidate; an optional patch alone;                               *)
(*   a master file that is not a required plugin, with one candidate;      *)
(*   the whole baseline with plain candidates;                             *)
(*   an optional patch, a plain candidate and a keyword ("fix") plugin;    *)
(*   a required plugin together with a case variant of its name;           *)
(*   a case variant of a required plugin that is itself missing, with      *)
(*   enough candidates for a crashed batch to split into sub-batches of 2. *)
(***************************************************************************)
sub_file(S) == SelectSeq(Master, LAMBDA p : p \in S)

FileSets ==
  { {},
    {"Oblivion.esm", "A.esp"},
    {"Oblivion.esm", "Patch.esp"},
    {"Oblivion.esm", "DLC.esm", "A.esp"},
    {"Oblivion.esm", "Knights.esp", "Patch.esp", "A.esp", "B.esp"},
    {"Oblivion.esm", "Patch.esp", "A.esp", "Fix.esp"},
    {"Oblivion.esm", "Knights.esp", "knights.esp", "Patch.esp", "A.esp"},
    {"Oblivion.esm", "knights.esp", "A.esp", "B.esp", "C.esp", "D.esp"} }

Files == {sub_file(S) : S \in FileSets}

Faults == {"pause", "write", "launch"}

\* The ids that are trialled as candidates for an order file.
Candidates(original) ==
  Range(initial_to_test(original, <<>>, <<>>, <<>>))
    \cup Range(initial_patch_plugins(original, <<>>, <<>>, <<>>))

InitState ==
  /\ pauses = 0 /\ faults = 0
  /\ safe = <<>> /\ tested = <<>> /\ failed = <<>>
  /\ to_test = <<>> /\ patch_plugins = <<>>
  /\ batches = <<>> /\ remaining = <<>>
  /\ batch = <<>> /\ i = 0 /\ sub = <<>> /\ j = 0
  /\ turbo_remaining = <<>>
  /\ refailed = <<>> /\ k = 0
  /\ mega_passed = FALSE
  /\ verified = <<>>
  /\ pc = "isolate"
  /\ trial = NoTrial
  /\ game = NoGame
  /\ main = Started
  /\ step = [size |-> 0, sub_size |-> 0]
  /\ logger = NoLog
  /\ disk = [enabled |-> write_plugins(original_plugins,
                                       sanity_plugins(original_plugins)),
             removed |-> <<>>, quarantined |-> <<>>, choice |-> "none",
             finalized |-> 0]

\* Any outcome at every trial, every fault.
Init ==
  /\ original_plugins \in Files
  /\ BATCH_SIZE \in 1..MaxBatchSize
  /\ TURBO_BATCH_MODE \in BOOLEAN
  /\ env \in [det : {FALSE}, Bad : {{}}, Dep : {{}},
              allow : {Faults, Faults \ {"write"}}]
  /\ InitState

\* A deterministic oracle: a trial crashes iff its load list holds an id of
\* Bad.  The baseline sanity trial has passed, so Bad holds no baseline id.
InitDet ==
  /\ original_plugins \in Files
  /\ BATCH_SIZE \in 1..MaxBatchSize
  /\ TURBO_BATCH_MODE \in BOOLEAN
  /\ env \in [det : {TRUE},
              Bad : {B \in SUBSET Candidates(original_plugins) :
                       /\ Cardinality(B) <= MaxBad
                       /\ B \cap Range(sanity_plugins(original_plugins)) = {}},
              Dep : {{}},
              allow : {{}, {"pause"}}]
  /\ InitState

\* A deterministic oracle with a missing-master rule: a trial crashes iff its
\* load list holds an id of Bad, or holds p without q for a pair <<p, q>> of
\* Dep (p needs q).  The baseline sanity trial has passed.
InitDep ==
  /\ original_plugins \in Files
  /\ BATCH_SIZE \in 1..MaxBatchSize
  /\ TURBO_BATCH_MODE \in BOOLEAN
  /\ env \in [det : {TRUE},
              Bad : {B \in SUBSET Candidates(original_plugins) :
                       /\ Cardinality(B) <= MaxDepBad
                       /\ B \cap Range(sanity_plugins(original_plugins)) = {}},
              Dep : {{}} \cup
                    {{<<p, q>>} : <<p, q>> \in
                       {d \in Candidates(original_plugins)
                                \X Candidates(original_plugins) :
                          /\ d[1] # d[2]
                          /\ d[1] \notin Range(sanity_plugins(original_plugins))}},
              allow : {{}, {"pause"}}]
  /\ InitState

(***************************************************************************)
(* One trial attempt and its outcome.                                      *)
(*   Passed / Crashed   wait_and_check_crash returned False / True         *)
(*   PausedResume, PausedRevert, PausedQuit                                *)
(*                      check_for_manual_pause: key press, then R / V / Q  *)
(*   WriteFail          the order file could not be written                *)
(*   LaunchFail         launch_game returned False                         *)
(***************************************************************************)
Paused == {"PausedResume", "PausedRevert", "PausedQuit"}
Exits == {"PausedRevert", "PausedQuit"}
Skipped == {"WriteFail", "LaunchFail"}

\* wait_and_check_crash without a key press
Verdicts(load) ==
  IF env.det
    THEN {IF \/ Range(load) \cap env.Bad # {}
             \/ \E d \in env.Dep : In(d[1], load) /\ ~In(d[2], load)
            THEN "Crashed" ELSE "Passed"}
    ELSE {"Passed", "Crashed"}

Outcomes(load) ==
  Verdicts(load)
    \cup (IF "pause" \in env.allow /\ pauses + faults < MaxEvents
            THEN Paused ELSE {})
    \cup (IF "write" \in env.allow /\ pauses + faults < MaxEvents
            THEN {"WriteFail"} ELSE {})
    \cup (IF "launch" \in env.allow /\ pauses + faults < MaxEvents
            THEN {"LaunchFail"} ELSE {})

\* A choice V that writes nothing.
keep_plugins(d) == d

\* check_for_manual_pause, choice V, lines 465-471: the original file is
\* written back
revert_plugins(d) ==
  [d EXCEPT !.enabled = original_plugins, !.removed = <<>>]

\* The order file after a trial attempt: the load list is written before
\* the launch; choice V of the pause menu writes the original file back and
\* choice Q writes nothing; after a passed mega trial the file of lines
\* 953-961 is written.
written(kind, part, load, o) ==
  IF o = "WriteFail" THEN disk
  ELSE LET d == [disk EXCEPT !.enabled = load, !.removed = <<>>]
       IN IF o = "PausedRevert" THEN revert_plugins(d)
          ELSE IF kind = "mega" /\ o = "Passed"
            THEN turbo_final_file(d, extend_new(safe, part), failed)
          ELSE d

Attempt(kind, part, load, o) ==
  /\ trial' = [kind |-> kind, part |-> part, load |-> load, outcome |-> o,
               batch |-> batch, i |-> i, j |-> j]
  /\ pauses' = IF o \in Paused THEN pauses + 1 ELSE pauses
  /\ faults' = IF o \in Skipped THEN faults + 1 ELSE faults
  /\ disk' = written(kind, part, load, o)

\* check_for_manual_pause, choice V or Q: sys.exit(0)
Exit(o) == o \in Exits /\ pc' = "exited"

\* except RuntimeError "manual_pause_triggered" below batch level:
\* the flag is set to True
crash_flag(o) == o \in {"Crashed", "PausedResume"}

(***************************************************************************)
(* isolate_esps, lines 1205-1267.                                          *)
(***************************************************************************)
isolate_esps ==
  /\ pc = "isolate"
  /\ LET all_plugins == original_plugins
         tt == initial_to_test(original_plugins, safe, tested, failed)
         pp == initial_patch_plugins(original_plugins, safe, tested, failed)
         sanity == sanity_plugins(original_plugins)
     IN IF all_plugins = <<>>
          THEN /\ pc' = "aborted"
               /\ UNCHANGED <<ledger, to_test, patch_plugins, batches>>
          ELSE IF TURBO_BATCH_MODE
            THEN /\ pc' = "turbo"
                 /\ to_test' = tt
                 /\ patch_plugins' = pp
                 /\ UNCHANGED <<ledger, batches>>
            ELSE /\ safe' = extend(safe, sanity)
                 /\ tested' = extend(tested, sanity)
                 /\ to_test' = NotIn(tt, extend(safe, sanity))
                 /\ patch_plugins' = NotIn(pp, extend(safe, sanity))
                 /\ batches' = chunk(NotIn(tt, extend(safe, sanity)), BATCH_SIZE)
                                 \o chunk(NotIn(pp, extend(safe, sanity)), BATCH_SIZE)
                 /\ failed' = failed
                 /\ pc' = "for_batch"
  /\ UNCHANGED <<frame, disk, pauses, faults, remaining, batch, i, sub, j, turbo_remaining,
                 refailed, k, trial>>

\* the two for loops over chunk(to_test) and chunk(patch_plugins), then
\* write_plugins(safe) and the final summary
for_batch ==
  /\ pc = "for_batch"
  /\ IF batches = <<>>
       THEN /\ pc' = "summary" /\ batch' = <<>> /\ batches' = batches
            /\ disk' = [disk EXCEPT
                           !.enabled = write_plugins(original_plugins, safe),
                           !.removed = <<>>]
       ELSE /\ batch' = Head(batches)
            /\ batches' = Tail(batches)
            /\ pc' = "rb_batch"
            /\ disk' = disk
  /\ UNCHANGED <<frame, pauses, faults, ledger, to_test, patch_plugins, remaining, i,
                 sub, j, turbo_remaining, refailed, k, trial>>

(***************************************************************************)
(* run_batch, lines 647-780.                                               *)
(***************************************************************************)
\* lines 652-692: the trial of the whole batch
rb_batch_trial ==
  /\ pc = "rb_batch"
  /\ LET load == load_order(safe, batch)
     IN \E o \in Outcomes(load) :
          /\ Attempt("batch", batch, load, o)
          /\ \/ Exit(o) /\ UNCHANGED <<ledger, i>>
             \/ o \in Skipped /\ pc' = "rb_return" /\ UNCHANGED <<ledger, i>>
             \/ o = "PausedResume" /\ pc' = "rb_batch" /\ UNCHANGED <<ledger, i>>
             \/ /\ o = "Passed"
                /\ safe' = extend(safe, batch)
                /\ tested' = extend(tested, batch)
                /\ pc' = "rb_return"
                /\ UNCHANGED <<failed, i>>
             \/ o = "Crashed" /\ i' = 0 /\ pc' = "rb_for_sub" /\ UNCHANGED ledger
  /\ UNCHANGED <<frame, to_test, patch_plugins, batches, remaining, batch,
                 sub, j, turbo_remaining, refailed, k>>

\* A loop head that takes the whole rest of the batch as the next
\* sub-batch: the split into chunks (C28) tells it from lines 693-694.
rb_for_sub_rest ==
  /\ pc = "rb_for_sub"
  /\ IF i >= Len(batch)
       THEN pc' = "rb_return" /\ sub' = sub
       ELSE /\ sub' = Slice(batch, i, Len(batch))
            /\ pc' = "rb_sub"
  /\ UNCHANGED <<frame, disk, pauses, faults, ledger, to_test, patch_plugins, batches,
                 remaining, batch, i, j, turbo_remaining, refailed, k, trial>>

\* lines 693-694
rb_for_sub ==
  /\ pc = "rb_for_sub"
  /\ IF i >= Len(batch)
       THEN pc' = "rb_return" /\ sub' = sub
       ELSE /\ sub' = Slice(batch, i, i + get_batch_size(Len(batch)))
            /\ pc' = "rb_sub"
  /\ UNCHANGED <<frame, disk, pauses, faults, ledger, to_test, patch_plugins, batches,
                 remaining, batch, i, j, turbo_remaining, refailed, k, trial>>

\* lines 695-738: the trial of one sub-batch
rb_sub_trial ==
  /\ pc = "rb_sub"
  /\ LET load == load_order(safe, sub)
         next == i + get_batch_size(Len(batch))
     IN \E o \in Outcomes(load) :
          /\ Attempt("sub", sub, load, o)
          /\ \/ Exit(o) /\ UNCHANGED <<ledger, i, j>>
             \/ /\ o = "WriteFail"
                /\ i' = next /\ pc' = "rb_for_sub"
                /\ UNCHANGED <<ledger, j>>
             \/ o = "LaunchFail" /\ pc' = "rb_return" /\ UNCHANGED <<ledger, i, j>>
             \/ /\ o = "Passed"
                /\ safe' = extend(safe, sub)
                /\ tested' = extend(tested, sub)
                /\ i' = next /\ pc' = "rb_for_sub"
                /\ UNCHANGED <<failed, j>>
             \/ /\ crash_flag(o)
                /\ IF Len(sub) = 1
                     THEN /\ failed' = append_new(failed, sub[1])
                          /\ tested' = append_new(tested, sub[1])
                          /\ i' = next /\ pc' = "rb_for_sub"
                          /\ UNCHANGED <<safe, j>>
                     ELSE /\ j' = 1 /\ pc' = "rb_for_one"
                          /\ UNCHANGED <<ledger, i>>
  /\ UNCHANGED <<frame, to_test, patch_plugins, batches, remaining, batch,
                 sub, turbo_remaining, refailed, k>>

\* line 739
rb_for_one ==
  /\ pc = "rb_for_one"
  /\ IF j > Len(sub)
       THEN /\ i' = i + get_batch_size(Len(batch))
            /\ j' = 0
            /\ pc' = "rb_for_sub"
       ELSE pc' = "rb_one" /\ UNCHANGED <<i, j>>
  /\ UNCHANGED <<frame, disk, pauses, faults, ledger, to_test, patch_plugins, batches,
                 remaining, batch, sub, turbo_remaining, refailed, k, trial>>

\* A loop that splits a crashed sub-batch again into chunks of
\* get_batch_size(len(sub)) plugins and trials each chunk: the one trial per
\* plugin (C26) tells it from lines 739-780.
rb_chunk_trial ==
  /\ pc = "rb_one"
  /\ LET size == get_batch_size(Len(sub))
         part == Slice(sub, j - 1, j - 1 + size)
         load == load_order(safe, part)
     IN \E o \in Outcomes(load) :
          /\ Attempt("one", part, load, o)
          /\ \/ Exit(o) /\ UNCHANGED <<ledger, i, j>>
             \/ /\ o \in Skipped
                /\ j' = j + size /\ pc' = "rb_for_one"
                /\ UNCHANGED <<ledger, i>>
             \/ /\ crash_flag(o)
                /\ failed' = extend_new(failed, part)
                /\ tested' = extend_new(tested, part)
                /\ j' = j + size /\ pc' = "rb_for_one"
                /\ UNCHANGED <<safe, i>>
             \/ /\ o = "Passed"
                /\ safe' = extend_new(safe, part)
                /\ tested' = extend_new(tested, part)
                /\ j' = j + size /\ pc' = "rb_for_one"
                /\ UNCHANGED <<failed, i>>
  /\ UNCHANGED <<frame, to_test, patch_plugins, batches, remaining, batch,
                 sub, turbo_remaining, refailed, k>>

\* lines 740-780: the trial of one plugin of a crashed sub-batch
rb_one_trial ==
  /\ pc = "rb_one"
  /\ LET plugin == sub[j]
         load == load_order(safe, <<plugin>>)
     IN \E o \in Outcomes(load) :
          /\ Attempt("one", <<plugin>>, load, o)
          /\ \/ Exit(o) /\ UNCHANGED <<ledger, i, j>>
             \/ /\ o = "WriteFail"
                /\ j' = j + 1 /\ pc' = "rb_for_one"
                /\ UNCHANGED <<ledger, i>>
             \/ /\ o = "LaunchFail"
                /\ i' = i + get_batch_size(Len(batch)) /\ pc' = "rb_for_sub"
                /\ j' = 0
                /\ UNCHANGED ledger
             \/ /\ crash_flag(o)
                /\ failed' = append_new(failed, plugin)
                /\ tested' = append_new(tested, plugin)
                /\ j' = j + 1 /\ pc' = "rb_for_one"
                /\ UNCHANGED <<safe, i>>
             \/ /\ o = "Passed"
                /\ safe' = append_new(safe, plugin)
                /\ tested' = append_new(tested, plugin)
                /\ j' = j + 1 /\ pc' = "rb_for_one"
                /\ UNCHANGED <<failed, i>>
  /\ UNCHANGED <<frame, to_test, patch_plugins, batches, remaining, batch,
                 sub, turbo_remaining, refailed, k>>

\* run_batch returns to the loop of isolate_esps (its locals i, sub and
\* plugin are dead from here on)
rb_return ==
  /\ pc = "rb_return"
  /\ pc' = "for_batch"
  /\ i' = 0 /\ sub' = <<>> /\ j' = 0
  /\ UNCHANGED <<frame, disk, pauses, faults, ledger, to_test, patch_plugins, batches,
                 remaining, batch, turbo_remaining, refailed, k, trial>>

(***************************************************************************)
(* turbo_batch_mode, lines 786-1090.                                       *)
(***************************************************************************)
\* A faulty selection that leaves out only the failed plugins: the partition
\* of the mega trial (C29) tells it from line 917.
not_failed(remaining_, failed_, safe_) ==
  SelectSeq(remaining_, LAMBDA p : ~In(p, failed_))

\* [p for p in remaining if p not in failed and p not in safe]
untested(remaining_, failed_, safe_) ==
  SelectSeq(remaining_, LAMBDA p : ~In(p, failed_) /\ ~In(p, safe_))

\* A faulty set-up that records only the required plugins as tested: the
\* ledger equation (C8) tells it from lines 794-801.
turbo_setup_tested_required_only ==
  /\ pc = "turbo"
  /\ tested' = extend_new(<<>>, REQUIRED_PLUGINS)
  /\ failed' = <<>>
  /\ remaining' = to_test \o patch_plugins
  /\ safe' = extend_new(safe, REQUIRED_PLUGINS \o OPTIONAL_PATCHES)
  /\ pc' = "t_while"
  /\ UNCHANGED <<frame, disk, pauses, faults, to_test, patch_plugins, batches, batch, i,
                 sub, j, turbo_remaining, refailed, k, trial>>

\* lines 794-801
turbo_setup ==
  /\ pc = "turbo"
  /\ tested' = extend_new(<<>>, REQUIRED_PLUGINS \o OPTIONAL_PATCHES)
  /\ failed' = <<>>
  /\ remaining' = to_test \o patch_plugins
  /\ safe' = extend_new(safe, REQUIRED_PLUGINS \o OPTIONAL_PATCHES)
  /\ pc' = "t_while"
  /\ UNCHANGED <<frame, disk, pauses, faults, to_test, patch_plugins, batches, batch, i,
                 sub, j, turbo_remaining, refailed, k, trial>>

\* lines 806-808
t_while ==
  /\ pc = "t_while"
  /\ IF remaining = <<>>
       THEN pc' = "t_end" /\ batch' = <<>>
       ELSE batch' = Slice(remaining, 0, BATCH_SIZE) /\ pc' = "t_batch"
  /\ UNCHANGED <<frame, disk, pauses, faults, ledger, to_test, patch_plugins, batches,
                 remaining, i, sub, j, turbo_remaining, refailed, k, trial>>

\* lines 809-845: the trial of one turbo batch
t_batch_trial ==
  /\ pc = "t_batch"
  /\ LET load == load_order(safe, batch)
     IN \E o \in Outcomes(load) :
          /\ Attempt("batch", batch, load, o)
          /\ \/ Exit(o) /\ UNCHANGED <<ledger, remaining, i>>
             \/ o \in Skipped /\ pc' = "t_end" /\ UNCHANGED <<ledger, remaining, i>>
             \/ /\ o = "PausedResume"
                /\ pc' = "t_while"
                /\ UNCHANGED <<ledger, remaining, i>>
             \/ /\ o = "Passed"
                /\ safe' = extend_new(safe, batch)
                /\ tested' = extend_new(tested, batch)
                /\ remaining' = NotIn(remaining, extend_new(safe, batch))
                /\ pc' = "t_while"
                /\ UNCHANGED <<failed, i>>
             \/ /\ o = "Crashed"
                /\ i' = 0 /\ pc' = "t_for_sub"
                /\ UNCHANGED <<ledger, remaining>>
  /\ UNCHANGED <<frame, to_test, patch_plugins, batches, batch, sub, j,
                 turbo_remaining, refailed, k>>

\* lines 846-847
t_for_sub ==
  /\ pc = "t_for_sub"
  /\ IF i >= Len(batch)
       THEN pc' = "t_while" /\ sub' = <<>> /\ i' = 0
       ELSE /\ sub' = Slice(batch, i, i + get_batch_size(Len(batch)))
            /\ pc' = "t_sub" /\ i' = i
  /\ UNCHANGED <<frame, disk, pauses, faults, ledger, to_test, patch_plugins, batches,
                 remaining, batch, j, turbo_remaining, refailed, k, trial>>

\* lines 848-881: the trial of one turbo sub-batch
t_sub_trial ==
  /\ pc = "t_sub"
  /\ LET load == load_order(safe, sub)
         next == i + get_batch_size(Len(batch))
     IN \E o \in Outcomes(load) :
          /\ Attempt("sub", sub, load, o)
          /\ \/ Exit(o) /\ UNCHANGED <<ledger, remaining, i, j>>
             \/ /\ o \in Skipped
                /\ i' = next /\ pc' = "t_for_sub"
                /\ UNCHANGED <<ledger, remaining, j>>
             \/ /\ o = "Passed"
                /\ safe' = extend_new(safe, sub)
                /\ tested' = extend_new(tested, sub)
                /\ remaining' = NotIn(remaining, extend_new(safe, sub))
                /\ i' = next /\ pc' = "t_for_sub"
                /\ UNCHANGED <<failed, j>>
             \/ /\ crash_flag(o)
                /\ j' = 1 /\ pc' = "t_for_one"
                /\ UNCHANGED <<ledger, remaining, i>>
  /\ UNCHANGED <<frame, to_test, patch_plugins, batches, batch, sub,
                 turbo_remaining, refailed, k>>

\* lines 882 and 1021-1022
t_for_one ==
  /\ pc = "t_for_one"
  /\ IF j > Len(sub)
       THEN /\ remaining' = untested(remaining, failed, safe)
            /\ i' = i + get_batch_size(Len(batch))
            /\ j' = 0 /\ turbo_remaining' = <<>>
            /\ pc' = "t_for_sub"
       ELSE pc' = "t_one" /\ UNCHANGED <<remaining, i, j, turbo_remaining>>
  /\ UNCHANGED <<frame, disk, pauses, faults, ledger, to_test, patch_plugins, batches,
                 batch, sub, refailed, k, trial>>

\* lines 883-917 and 1016-1020: the trial of one plugin, and whether a mega
\* trial follows
t_one_trial ==
  /\ pc = "t_one"
  /\ LET plugin == sub[j]
         load == load_order(safe, <<plugin>>)
     IN \E o \in Outcomes(load) :
          /\ Attempt("one", <<plugin>>, load, o)
          /\ \/ Exit(o) /\ UNCHANGED <<ledger, j, turbo_remaining>>
             \/ /\ o \in Skipped
                /\ j' = j + 1 /\ pc' = "t_for_one"
                /\ UNCHANGED <<ledger, turbo_remaining>>
             \/ /\ crash_flag(o)
                /\ failed' = append_new(failed, plugin)
                /\ tested' = append_new(tested, plugin)
                /\ safe' = safe
                /\ turbo_remaining' =
                     untested(remaining, append_new(failed, plugin), safe)
                /\ IF untested(remaining, append_new(failed, plugin), safe) # <<>>
                     THEN pc' = "t_mega" /\ j' = j
                     ELSE pc' = "t_for_one" /\ j' = j + 1
             \/ /\ o = "Passed"
                /\ safe' = append_new(safe, plugin)
                /\ tested' = append_new(tested, plugin)
                /\ j' = j + 1 /\ pc' = "t_for_one"
                /\ UNCHANGED <<failed, turbo_remaining>>
  /\ UNCHANGED <<frame, to_test, patch_plugins, batches, remaining, batch, i,
                 sub, refailed, k>>

\* A faulty handling of a passed mega trial that commits the plugins and
\* then goes on with the loop over sub: the termination property (C9) tells
\* it from the return of line 1012.
mega_pass_loop_goes_on ==
  /\ safe' = extend_new(safe, turbo_remaining)
  /\ tested' = extend_new(tested, turbo_remaining)
  /\ failed' = failed
  /\ remaining' = <<>>
  /\ mega_passed' = TRUE
  /\ j' = j + 1
  /\ pc' = "t_for_one"
  /\ UNCHANGED <<batch, i, sub>>

\* lines 945-964 and 1010-1012: the mega trial has passed; all of
\* turbo_remaining is committed, remaining is cleared and the function goes
\* on to the re-verification offer and returns (the loop locals are dead)
mega_pass ==
  /\ safe' = extend_new(safe, turbo_remaining)
  /\ tested' = extend_new(tested, turbo_remaining)
  /\ failed' = failed
  /\ remaining' = <<>>
  /\ mega_passed' = TRUE
  /\ pc' = IF failed # <<>> THEN "m_prompt" ELSE "m_summary"
  /\ batch' = <<>> /\ i' = 0 /\ sub' = <<>> /\ j' = 0

\* A faulty handling of a crashed mega trial that leaves the loop over the
\* plugins of sub: the continuation property (C10) tells it from the
\* fall-through of lines 1013-1015.
mega_crash_leaves_loop ==
  /\ j' = Len(sub) + 1
  /\ pc' = "t_for_one"
  /\ UNCHANGED <<ledger, remaining, batch, i, sub, mega_passed>>

\* lines 929-935 and 1013-1015: the mega trial crashed or was skipped; the
\* loop over the plugins of sub goes on
mega_crash ==
  /\ j' = j + 1
  /\ pc' = "t_for_one"
  /\ UNCHANGED <<ledger, remaining, batch, i, sub, mega_passed>>

\* lines 918-1015: the mega trial on turbo_remaining
t_mega_trial ==
  /\ pc = "t_mega"
  /\ LET load == load_order(safe, turbo_remaining)
     IN \E o \in Outcomes(load) :
          /\ Attempt("mega", turbo_remaining, load, o)
          /\ \/ /\ Exit(o)
                /\ UNCHANGED <<ledger, remaining, batch, i, sub, j, mega_passed>>
             \/ (o \in Skipped \/ crash_flag(o)) /\ mega_crash
             \/ o = "Passed" /\ mega_pass
  /\ UNCHANGED <<config, verified, to_test, patch_plugins, batches, turbo_remaining,
                 refailed, k>>

\* lines 1025-1043: the loop has ended (its locals are dead), the order
\* file is written
t_end ==
  /\ pc = "t_end"
  /\ pc' = IF failed # <<>> THEN "t_prompt" ELSE "t_summary"
  /\ batch' = <<>> /\ i' = 0 /\ sub' = <<>> /\ j' = 0
  /\ turbo_remaining' = <<>>
  /\ disk' = turbo_final_file(disk, safe, failed)
  /\ UNCHANGED <<frame, pauses, faults, ledger, to_test, patch_plugins, batches,
                 remaining, refailed, k, trial>>

(***************************************************************************)
(* Re-verification of the failed plugins: lines 966-1008 after a passed    *)
(* mega trial, lines 1043-1085 after the loop.                             *)
(***************************************************************************)
\* "Would you like to re-test each failed plugin individually ...? [Y/n]"
prompt(at, loop, summary) ==
  /\ pc = at
  /\ \E resp \in {"y", "n"} :
       IF resp = "y"
         THEN refailed' = <<>> /\ k' = 1 /\ pc' = loop
         ELSE pc' = summary /\ UNCHANGED <<refailed, k>>
  /\ UNCHANGED <<frame, disk, pauses, faults, ledger, to_test, patch_plugins, batches,
                 remaining, batch, i, sub, j, turbo_remaining, trial>>

\* A faulty loop that starts over on the plugins that failed again, until
\* a pass changes nothing: the once-only property of re-verification (C13)
\* tells it from the single loop of lines 971-1008.
recheck_until_stable(at, body, summary) ==
  /\ pc = at
  /\ IF k > Len(failed)
       THEN /\ failed' = refailed
            /\ refailed' = <<>>
            /\ IF refailed # <<>> /\ refailed # failed
                 THEN k' = 1 /\ pc' = at
                 ELSE k' = 0 /\ pc' = summary
       ELSE failed' = failed /\ pc' = body /\ UNCHANGED <<refailed, k>>
  /\ UNCHANGED <<frame, disk, pauses, faults, safe, tested, to_test, patch_plugins,
                 batches, remaining, batch, i, sub, j, turbo_remaining, trial>>

\* for plugin in failed: ... ; failed[:] = refailed
recheck_for(at, body, summary) ==
  /\ pc = at
  /\ IF k > Len(failed)
       THEN /\ failed' = refailed /\ pc' = summary
            /\ refailed' = <<>> /\ k' = 0
       ELSE failed' = failed /\ pc' = body /\ UNCHANGED <<refailed, k>>
  /\ UNCHANGED <<frame, disk, pauses, faults, safe, tested, to_test, patch_plugins,
                 batches, remaining, batch, i, sub, j, turbo_remaining, trial>>

\* the re-verification trial of failed[k]
recheck_trial(at, loop) ==
  /\ pc = at
  /\ LET plugin == failed[k]
         load == recheck_order(original_plugins, safe, plugin)
     IN \E o \in Outcomes(load) :
          /\ Attempt("recheck", <<plugin>>, load, o)
          /\ verified' = IF o \in Skipped THEN verified
                          ELSE Append(verified, [plugin |-> plugin, outcome |-> o])
          /\ \/ Exit(o) /\ UNCHANGED <<safe, refailed, k>>
             \/ /\ o \in Skipped \/ crash_flag(o)
                /\ refailed' = Append(refailed, plugin)
                /\ k' = k + 1 /\ pc' = loop
                /\ safe' = safe
             \/ /\ o = "Passed"
                /\ safe' = Append(safe, plugin)
                /\ k' = k + 1 /\ pc' = loop
                /\ refailed' = refailed
  /\ UNCHANGED <<config, mega_passed, tested, failed, to_test, patch_plugins,
                 batches, remaining, batch, i, sub, j, turbo_remaining>>

m_prompt == prompt("m_prompt", "m_recheck_for", "m_summary")
m_recheck_for == recheck_for("m_recheck_for", "m_recheck", "m_summary")
m_recheck_trial == recheck_trial("m_recheck", "m_recheck_for")
t_prompt == prompt("t_prompt", "t_recheck_for", "t_summary")
t_recheck_for == recheck_for("t_recheck_for", "t_recheck", "t_summary")
t_recheck_trial == recheck_trial("t_recheck", "t_recheck_for")

\* show_final_summary_and_prompt, lines 600-639, asked only when failed is
\* not empty: Q moves the files of the failed plugins to a new quarantine
\* session, R writes the original file back, E changes nothing
final_choice(d, choice) ==
  IF failed = <<>> THEN d
  ELSE IF choice = "e" THEN [d EXCEPT !.choice = "e"]
  ELSE IF choice = "q" THEN [d EXCEPT !.choice = "q", !.quarantined = failed]
  ELSE [d EXCEPT !.choice = "r", !.enabled = original_plugins,
                 !.removed = <<>>]

\* show_final_summary_and_prompt, then the session ends; at the end of
\* turbo_batch_mode finalize_load_order is called next (line 1089), but not
\* after a passed mega trial (line 1012)
final_summary ==
  /\ pc \in {"summary", "m_summary", "t_summary"}
  /\ pc' = "done"
  /\ \E choice \in {"q", "r", "e"} :
       disk' = IF pc = "t_summary"
                 THEN finalize_load_order(final_choice(disk, choice))
                 ELSE final_choice(disk, choice)
  /\ UNCHANGED <<frame, pauses, faults, ledger, to_test, patch_plugins, batches,
                 remaining, batch, i, sub, j, turbo_remaining, refailed, k,
                 trial>>

Next ==
  \/ isolate_esps
  \/ for_batch
  \/ rb_batch_trial
  \/ rb_for_sub
  \/ rb_sub_trial
  \/ rb_for_one
  \/ rb_one_trial
  \/ rb_return
  \/ turbo_setup
  \/ t_while
  \/ t_batch_trial
  \/ t_for_sub
  \/ t_sub_trial
  \/ t_for_one
  \/ t_one_trial
  \/ t_mega_trial
  \/ t_end
  \/ m_prompt
  \/ m_recheck_for
  \/ m_recheck_trial
  \/ t_prompt
  \/ t_recheck_for
  \/ t_recheck_trial
  \/ final_summary

Spec == Init /\ [][Next]_vars

SpecDet == InitDet /\ [][Next]_vars

SpecDep == InitDep /\ [][Next]_vars

\* One batch of twenty candidates, of which one crashes the game: no key
\* press, no write or launch failure.
InitBig ==
  /\ original_plugins = sub_file({"Oblivion.esm"} \cup Range(Many))
  /\ BATCH_SIZE = BigBatch
  /\ TURBO_BATCH_MODE \in BOOLEAN
  /\ env \in [det : {TRUE}, Bad : {{p} : p \in Range(Many)}, Dep : {{}},
              allow : {{}}]
  /\ InitState

SpecBig == InitBig /\ [][Next]_vars

(***************************************************************************)
(* The oracle and the external process, lines 372-513: one trial is        *)
(* launch_game followed by wait_and_check_crash.  launch_game starts the   *)
(* loader GAME_EXE; the process get_game_pid looks for, GAME_PROCESS_NAME, *)
(* is started by the loader and shows up later, or never.  Time is not     *)
(* modelled: the deadline of wait_and_check_crash is reached after any     *)
(* number of polls up to MaxTicks.                                         *)
(***************************************************************************)
\* for _ in range(30), line 494
GRACE_POLLS == 30

\* The variables of the isolation session, which the oracle leaves alone.
session ==
  <<original_plugins, BATCH_SIZE, TURBO_BATCH_MODE, env, pauses, faults, safe,
    tested, failed, to_test, patch_plugins, batches, remaining, batch, i, sub,
    j, turbo_remaining, refailed, k, mega_passed, verified, pc, trial, main,
    disk, step, logger>>

\* get_game_pid: the pid of the first process found, or None
get_game_pid(g) == g.live > 0

\* force_close_game: kills the pid get_game_pid returns; without a pid it
\* kills by image name, and there is no process of that name
force_close_game(g) ==
  [g EXCEPT !.live = IF get_game_pid(g) THEN g.live - 1 ELSE 0,
            !.closed = TRUE]

\* launch_game: False when GAME_EXE is missing or Popen raises
launch_game ==
  /\ game.pc = "idle"
  /\ game.trials < MaxTrials
  /\ \E ok \in BOOLEAN :
       game' = IF ok
                 THEN [game EXCEPT !.pc = "grace", !.trials = @ + 1,
                                   !.starting = @ + 1, !.polls = 0,
                                   !.ticks = 0, !.seen = FALSE,
                                   !.gone = FALSE, !.key = FALSE,
                                   !.closed = FALSE, !.verdict = "none",
                                   !.absent = FALSE]
                 ELSE [game EXCEPT !.trials = @ + 1, !.polls = 0,
                                   !.ticks = 0, !.seen = FALSE,
                                   !.gone = FALSE, !.key = FALSE,
                                   !.closed = FALSE, !.absent = FALSE,
                                   !.verdict = "LaunchFail"]
  /\ UNCHANGED session

\* the environment: the process of a started instance shows up
game_appears ==
  /\ game.starting > 0
  /\ game' = [game EXCEPT !.starting = @ - 1, !.live = @ + 1]
  /\ UNCHANGED session

\* the environment: a process crashes or exits
game_exits ==
  /\ game.live > 0
  /\ game' = [game EXCEPT !.live = @ - 1]
  /\ UNCHANGED session

\* wait_and_check_crash, lines 494-497: one poll of the grace loop
grace_poll ==
  /\ game.pc = "grace"
  /\ game.polls < GRACE_POLLS
  /\ game' = IF get_game_pid(game)
               THEN [game EXCEPT !.pc = "watch", !.seen = TRUE]
               ELSE [game EXCEPT !.polls = @ + 1]
  /\ UNCHANGED session

\* A grace loop without its else branch: after the last poll the deadline
\* loop is entered although no process was found.
grace_without_else ==
  /\ game.pc = "grace"
  /\ game.polls = GRACE_POLLS
  /\ game' = [game EXCEPT !.pc = "watch"]
  /\ UNCHANGED session

\* wait_and_check_crash, lines 498-501: the else branch of the grace loop
grace_else ==
  /\ game.pc = "grace"
  /\ game.polls = GRACE_POLLS
  /\ game' = force_close_game([game EXCEPT !.pc = "idle",
                                           !.verdict = "Crashed"])
  /\ UNCHANGED session

\* the operator: a key is pressed while a trial runs
key_press ==
  /\ game.pc \in {"grace", "watch"}
  /\ ~game.pending
  /\ game' = [game EXCEPT !.pending = TRUE]
  /\ UNCHANGED session

\* A poll of the deadline loop that looks for the process first and for a
\* key press after it: the order of the two samples (C38) tells it from
\* lines 503-510.
watch_poll_process_first ==
  /\ game.pc = "watch"
  /\ \/ game' = force_close_game([game EXCEPT !.pc = "idle",
                                              !.verdict = "Passed"])
     \/ /\ game.ticks < MaxTicks
        /\ game' = IF ~get_game_pid(game)
                     THEN force_close_game(
                            [game EXCEPT !.pc = "idle", !.gone = TRUE,
                                         !.verdict = "Crashed"])
                     ELSE IF game.pending
                       THEN force_close_game(
                              [game EXCEPT !.pc = "menu", !.key = TRUE,
                                           !.pending = FALSE])
                       ELSE [game EXCEPT !.ticks = @ + 1]
  /\ UNCHANGED session

\* wait_and_check_crash, lines 502-513: the deadline is reached, or one poll
\* of the deadline loop: check_for_manual_pause first (kbhit, getch,
\* force_close_game, lines 447-452), then get_game_pid
watch_poll ==
  /\ game.pc = "watch"
  /\ \/ game' = force_close_game([game EXCEPT !.pc = "idle",
                                              !.verdict = "Passed"])
     \/ /\ game.ticks < MaxTicks
        /\ game' = IF game.pending
                     THEN force_close_game(
                            [game EXCEPT !.pc = "menu", !.key = TRUE,
                                         !.pending = FALSE,
                                         !.absent = ~get_game_pid(game)])
                     ELSE IF ~get_game_pid(game)
                       THEN force_close_game(
                              [game EXCEPT !.pc = "idle", !.gone = TRUE,
                                           !.verdict = "Crashed"])
                       ELSE [game EXCEPT !.ticks = @ + 1]
  /\ UNCHANGED session

\* check_for_manual_pause, lines 458-476: R raises manual_pause_triggered,
\* which wait_and_check_crash passes on; V and Q end the program
check_for_manual_pause ==
  /\ game.pc = "menu"
  /\ \E choice \in {"r", "v", "q"} :
       game' = IF choice = "r"
                 THEN [game EXCEPT !.pc = "idle", !.verdict = "Paused"]
                 ELSE [game EXCEPT !.pc = "exited", !.verdict = "Exit"]
  /\ UNCHANGED session

NextOracle ==
  \/ launch_game
  \/ game_appears
  \/ game_exits
  \/ key_press
  \/ grace_poll
  \/ grace_else
  \/ watch_poll
  \/ check_for_manual_pause

\* Trials of the oracle one after the other, as the engine makes them.
InitOracle ==
  /\ original_plugins = <<>>
  /\ BATCH_SIZE = 1
  /\ TURBO_BATCH_MODE = FALSE
  /\ env = [det |-> FALSE, Bad |-> {}, Dep |-> {}, allow |-> Faults]
  /\ InitState

SpecOracle == InitOracle /\ [][NextOracle]_vars

(***************************************************************************)
(* The program from its entry point, lines 1364-1371, with the startup of  *)
(* isolate_esps, lines 1100-1204, and the session that follows it.         *)
(***************************************************************************)
\* What the startup and the end of the program leave alone.
run ==
  <<original_plugins, BATCH_SIZE, TURBO_BATCH_MODE, env, pauses, faults, safe,
    tested, failed, to_test, patch_plugins, batches, remaining, batch, i, sub,
    j, turbo_remaining, refailed, k, mega_passed, verified, trial, game,
    step, logger>>

\* The order file exists only.
plugin_file_exists(m) == m.plugin_file

\* isolate_esps, lines 1100-1109: both files exist
startup_files_exist(m) == m.plugin_file /\ m.game_exe

\* __main__ line 1365 and isolate_esps lines 1100-1109
main_checks ==
  /\ pc = "main"
  /\ IF startup_files_exist(main)
       THEN /\ pc' = "startup"
            /\ main' = [main EXCEPT !.finalize_needed = TRUE]
       ELSE /\ pc' = "returned"
            /\ main' = [main EXCEPT !.finalize_needed = FALSE]
  /\ UNCHANGED <<run, disk>>

\* What the startup trials leave alone.
session_lists ==
  <<original_plugins, BATCH_SIZE, TURBO_BATCH_MODE, env, safe, tested, failed,
    to_test, patch_plugins, batches, remaining, batch, i, sub, j,
    turbo_remaining, refailed, k, mega_passed, verified, game, step, logger>>

\* enforce_exact_load_order, lines 315-333: required, optional, then the
\* other entries of the current order file, first occurrence per key
enforce_exact_load_order(d) ==
  LET reqopt == REQUIRED_PLUGINS \o OPTIONAL_PATCHES
      extra_plugins ==
        SelectSeq(d.enabled, LAMBDA p : lower(p) \notin {lower(x) : x \in Range(reqopt)})
  IN [d EXCEPT !.enabled = dedup(reqopt \o extra_plugins)]

\* isolate_esps lines 1111-1115: restore_latest_backup (which may write the
\* order file, or end the program) and backup_original_plugins, whose
\* failure sets finalize_needed to False and returns
main_backup ==
  /\ pc = "startup"
  /\ \E restored \in BOOLEAN, result \in {"exit", "failed", "ok"} :
       /\ main' = [main EXCEPT !.restored = restored,
                               !.finalize_needed = (result = "ok")]
       /\ pc' = CASE result = "exit" -> "exited"
                  [] result = "failed" -> "returned"
                  [] OTHER -> "sanity"
  /\ UNCHANGED <<run, disk>>

\* A write or launch failure of a startup trial is counted with the events.
SanityOutcomes(load) ==
  Outcomes(load) \cup (IF pauses + faults < MaxEvents THEN Skipped ELSE {})

\* One trial of the baseline at startup, lines 1139-1159 and 1170-1190: a
\* failed write or launch returns with finalize_needed False, a resumed
\* pause tries again, a choice of V or Q at the pause menu exits; a trial
\* that passed goes on to line 1204, one that crashed to position crashed
sanity_trial(at, load, crashed) ==
  /\ pc = at
  /\ \E o \in SanityOutcomes(load) :
       /\ Attempt("sanity", <<>>, load, o)
       /\ pc' = CASE o \in Exits -> "exited"
                  [] o \in Skipped -> "returned"
                  [] o = "PausedResume" -> at
                  [] o = "Crashed" -> crashed
                  [] OTHER -> "isolate"
       /\ main' = [main EXCEPT
                     !.sanity = CASE o = "Passed" -> "passed"
                                  [] o = "Crashed" -> "failed"
                                  [] OTHER -> @,
                     !.finalize_needed =
                        ~(o \in Skipped \/ (o = "Crashed" /\ crashed = "returned"))]
  /\ UNCHANGED session_lists

\* A faulty answer to the prompt that goes on to isolation without a new
\* trial of the baseline: the sanity property (C37) tells it from lines
\* 1165-1199.
main_enforce_without_retest ==
  /\ pc = "enforce"
  /\ \E resp \in {"y", "n"} :
       IF resp = "y"
         THEN /\ pc' = "isolate"
              /\ main' = [main EXCEPT !.enforced = TRUE]
              /\ disk' = enforce_exact_load_order(disk)
         ELSE /\ pc' = "returned"
              /\ main' = [main EXCEPT !.finalize_needed = FALSE]
              /\ disk' = disk
  /\ UNCHANGED run

\* lines 1139-1159: the sanity trial, written with write_plugins
main_sanity ==
  sanity_trial("sanity",
               write_plugins(original_plugins, sanity_plugins(original_plugins)),
               "enforce")

\* lines 1161-1169 and 1200-1203: "Do you want to enforce the exact load
\* order ...? [Y/n]"
main_enforce ==
  /\ pc = "enforce"
  /\ \E resp \in {"y", "n"} :
       IF resp = "y"
         THEN /\ pc' = "sanity_enforced"
              /\ main' = [main EXCEPT !.enforced = TRUE]
              /\ disk' = enforce_exact_load_order(disk)
         ELSE /\ pc' = "returned"
              /\ main' = [main EXCEPT !.finalize_needed = FALSE]
              /\ disk' = disk
  /\ UNCHANGED run

\* lines 1170-1199: the sanity trial under the enforced order, written with
\* write_plugins_exact
main_sanity_enforced ==
  sanity_trial("sanity_enforced", sanity_plugins(original_plugins), "returned")

\* __main__ lines 1366-1371: isolate_esps has returned; finalize_needed was
\* set to False at lines 1210 and 1238
main_end ==
  /\ pc \in {"done", "aborted", "returned"}
  /\ pc' = "end"
  /\ LET needed == /\ main.finalize_needed
                   /\ pc = "done"
                   /\ ~TURBO_BATCH_MODE
     IN /\ main' = [main EXCEPT !.finalize_needed = needed,
                                !.finalized = needed]
        /\ disk' = IF needed THEN finalize_load_order(disk) ELSE disk
  /\ UNCHANGED run

NextMain ==
  \/ main_checks
  \/ main_backup
  \/ main_sanity
  \/ main_enforce
  \/ main_sanity_enforced
  \/ Next
  \/ main_end

InitMain ==
  /\ original_plugins \in Files
  /\ BATCH_SIZE \in 1..MaxBatchSize
  /\ TURBO_BATCH_MODE \in BOOLEAN
  /\ env = [det |-> FALSE, Bad |-> {}, Dep |-> {}, allow |-> {"pause"}]
  /\ pauses = 0 /\ faults = 0
  /\ safe = <<>> /\ tested = <<>> /\ failed = <<>>
  /\ to_test = <<>> /\ patch_plugins = <<>>
  /\ batches = <<>> /\ remaining = <<>>
  /\ batch = <<>> /\ i = 0 /\ sub = <<>> /\ j = 0
  /\ turbo_remaining = <<>>
  /\ refailed = <<>> /\ k = 0
  /\ mega_passed = FALSE
  /\ verified = <<>>
  /\ pc = "main"
  /\ trial = NoTrial
  /\ game = NoGame
  /\ step = [size |-> 0, sub_size |-> 0]
  /\ logger = NoLog
  /\ main \in [plugin_file : BOOLEAN, game_exe : BOOLEAN,
               finalize_needed : {TRUE}, restored : {FALSE},
               sanity : {"none"}, enforced : {FALSE}, finalized : {FALSE}]
  /\ disk = [enabled |-> original_plugins, removed |-> <<>>,
             quarantined |-> <<>>, choice |-> "none",
             finalized |-> 0]

SpecMain == InitMain /\ [][NextMain]_vars

(***************************************************************************)
(* get_batch_size, lines 355-365, called on a size of 1 to MaxSize.        *)
(***************************************************************************)
call_get_batch_size ==
  /\ step.size > 0
  /\ step.sub_size = 0
  /\ step' = [step EXCEPT !.sub_size = get_batch_size(step.size)]
  /\ UNCHANGED <<original_plugins, BATCH_SIZE, TURBO_BATCH_MODE, env, pauses,
                 faults, safe, tested, failed, to_test, patch_plugins, batches,
                 remaining, batch, i, sub, j, turbo_remaining, refailed, k,
                 mega_passed, verified, pc, trial, game, disk, main, logger>>

InitStep ==
  /\ original_plugins = <<>>
  /\ BATCH_SIZE = 1
  /\ TURBO_BATCH_MODE = FALSE
  /\ env = [det |-> FALSE, Bad |-> {}, Dep |-> {}, allow |-> Faults]
  /\ pauses = 0 /\ faults = 0
  /\ safe = <<>> /\ tested = <<>> /\ failed = <<>>
  /\ to_test = <<>> /\ patch_plugins = <<>>
  /\ batches = <<>> /\ remaining = <<>>
  /\ batch = <<>> /\ i = 0 /\ sub = <<>> /\ j = 0
  /\ turbo_remaining = <<>>
  /\ refailed = <<>> /\ k = 0
  /\ mega_passed = FALSE
  /\ verified = <<>>
  /\ pc = "isolate"
  /\ trial = NoTrial
  /\ game = NoGame
  /\ main = Started
  /\ disk = [enabled |-> <<>>, removed |-> <<>>, quarantined |-> <<>>,
             choice |-> "none",
             finalized |-> 0]
  /\ step \in [size : 1..MaxSize, sub_size : {0}]
  /\ logger = NoLog

SpecStep == InitStep /\ [][call_get_batch_size]_vars

(***************************************************************************)
(* Logging, lines 175-199: log puts lines in log_queue, the daemon thread  *)
(* background_log_writer takes them out and writes them to RESULT_LOG, and *)
(* shutdown_logging sets log_shutdown and joins the thread for at most 5   *)
(* seconds.  The main thread logs up to MaxLines lines, calls              *)
(* shutdown_logging (line 1369) and the process exits.                     *)
(***************************************************************************)
engine ==
  <<original_plugins, BATCH_SIZE, TURBO_BATCH_MODE, env, pauses, faults, safe,
    tested, failed, to_test, patch_plugins, batches, remaining, batch, i, sub,
    j, turbo_remaining, refailed, k, mega_passed, verified, pc, trial, game,
    disk, step, main>>

\* log, lines 192-194
log ==
  /\ logger.caller = "running"
  /\ logger.put < MaxLines
  /\ logger' = [logger EXCEPT !.put = @ + 1,
                              !.queue = Append(@, logger.put + 1)]
  /\ UNCHANGED engine

\* line 181: while not log_shutdown.is_set() or not log_queue.empty()
writer_loop ==
  /\ logger.thread = "loop"
  /\ logger' = [logger EXCEPT !.thread =
                  IF ~logger.shutdown \/ logger.queue # <<>>
                    THEN "get" ELSE "ended"]
  /\ UNCHANGED engine

\* lines 182-183 and 186-187: log_queue.get(timeout=0.1) gives the first
\* line of the queue, or raises queue.Empty and the loop goes on
writer_get ==
  /\ logger.thread = "get"
  /\ logger' = IF logger.queue # <<>>
                 THEN [logger EXCEPT !.msg = Head(logger.queue),
                                     !.queue = Tail(@), !.thread = "write"]
                 ELSE [logger EXCEPT !.thread = "loop"]
  /\ UNCHANGED engine

\* lines 184-185: f.write(msg + "\n"); f.flush()
writer_write ==
  /\ logger.thread = "write"
  /\ logger' = [logger EXCEPT !.file = Append(@, logger.msg), !.msg = 0,
                              !.thread = "loop"]
  /\ UNCHANGED engine

\* lines 196-198: log_shutdown.set(); if log_thread.is_alive(): the join of
\* line 199 is entered
shutdown_logging ==
  /\ logger.caller = "running"
  /\ logger' = [logger EXCEPT !.shutdown = TRUE,
                              !.caller = IF logger.thread # "ended"
                                           THEN "join" ELSE "returned"]
  /\ UNCHANGED engine

\* line 199: log_thread.join(timeout=5) returns because the thread has
\* ended
join_returns ==
  /\ logger.caller = "join"
  /\ logger.thread = "ended"
  /\ logger' = [logger EXCEPT !.caller = "returned"]
  /\ UNCHANGED engine

\* line 199: log_thread.join(timeout=5) returns because the 5 seconds have
\* passed; the thread is alive (how far it got in 5 seconds is up to the
\* disk it writes and flushes to)
join_timeout ==
  /\ logger.caller = "join"
  /\ logger.thread # "ended"
  /\ logger' = [logger EXCEPT !.caller = "returned"]
  /\ UNCHANGED engine

\* lines 189 and 1369-1371: the main thread runs to the end of the program
\* and the interpreter exits; a daemon thread that is alive is stopped
exit_process ==
  /\ logger.caller = "returned"
  /\ logger' = [logger EXCEPT !.caller = "exited",
                              !.thread = IF @ = "ended" THEN @ ELSE "killed"]
  /\ UNCHANGED engine

NextLog ==
  \/ log
  \/ writer_loop
  \/ writer_get
  \/ writer_write
  \/ shutdown_logging
  \/ join_returns
  \/ join_timeout
  \/ exit_process

\* no session has been started; the logger is as lines 175-190 leave it
InitLog ==
  /\ original_plugins = <<>>
  /\ BATCH_SIZE = 1
  /\ TURBO_BATCH_MODE = FALSE
  /\ env = [det |-> FALSE, Bad |-> {}, Dep |-> {}, allow |-> Faults]
  /\ pauses = 0 /\ faults = 0
  /\ safe = <<>> /\ tested = <<>> /\ failed = <<>>
  /\ to_test = <<>> /\ patch_plugins = <<>>
  /\ batches = <<>> /\ remaining = <<>>
  /\ batch = <<>> /\ i = 0 /\ sub = <<>> /\ j = 0
  /\ turbo_remaining = <<>>
  /\ refailed = <<>> /\ k = 0
  /\ mega_passed = FALSE
  /\ verified = <<>>
  /\ pc = "isolate"
  /\ trial = NoTrial
  /\ game = NoGame
  /\ main = Started
  /\ disk = [enabled |-> <<>>, removed |-> <<>>, quarantined |-> <<>>,
             choice |-> "none",
             finalized |-> 0]
  /\ step = [size |-> 0, sub_size |-> 0]
  /\ logger = NoLog

SpecLog == InitLog /\ [][NextLog]_vars

(***************************************************************************)
(* The result of a session of isolate_esps with turbo_batch_mode off, a    *)
(* deterministic oracle, no key press and no write or launch failure, as a *)
(* function of the order file and BATCH_SIZE: run_batch folded over the    *)
(* batches.  L is the pair [safe, failed].                                 *)
(***************************************************************************)
crashes(load) == "Crashed" \in Verdicts(load)

\* lines 740-780: one plugin of a crashed sub-batch
plain_one(plugin, L) ==
  IF crashes(load_order(L.safe, <<plugin>>))
    THEN [L EXCEPT !.failed = append_new(L.failed, plugin)]
    ELSE [L EXCEPT !.safe = append_new(L.safe, plugin)]

RECURSIVE plain_singles(_, _)
plain_singles(plugins, L) ==
  IF plugins = <<>> THEN L
  ELSE plain_singles(Tail(plugins), plain_one(Head(plugins), L))

\* lines 695-739: one sub-batch
plain_sub(sub_, L) ==
  IF ~crashes(load_order(L.safe, sub_))
    THEN [L EXCEPT !.safe = extend(L.safe, sub_)]
    ELSE IF Len(sub_) = 1
      THEN [L EXCEPT !.failed = append_new(L.failed, sub_[1])]
      ELSE plain_singles(sub_, L)

RECURSIVE plain_subs(_, _)
plain_subs(subs, L) ==
  IF subs = <<>> THEN L
  ELSE plain_subs(Tail(subs), plain_sub(Head(subs), L))

\* lines 652-694: one batch
plain_batch(batch_, L) ==
  IF ~crashes(load_order(L.safe, batch_))
    THEN [L EXCEPT !.safe = extend(L.safe, batch_)]
    ELSE plain_subs(chunk(batch_, get_batch_size(Len(batch_))), L)

RECURSIVE plain_batches(_, _)
plain_batches(batches_, L) ==
  IF batches_ = <<>> THEN L
  ELSE plain_batches(Tail(batches_), plain_batch(Head(batches_), L))

\* lines 1205-1265
plain_session(original, size) ==
  LET sanity == sanity_plugins(original)
      tt == NotIn(initial_to_test(original, <<>>, <<>>, <<>>), sanity)
      pp == NotIn(initial_patch_plugins(original, <<>>, <<>>, <<>>), sanity)
  IN plain_batches(chunk(tt, size) \o chunk(pp, size),
                   [safe |-> sanity, failed |-> <<>>])

(***************************************************************************)
(* Vocabulary of the claims.                                               *)
(***************************************************************************)
\* positions at which the next step is a trial attempt
TrialPCs ==
  {"rb_batch", "rb_sub", "rb_one", "t_batch", "t_sub", "t_one", "t_mega",
   "m_recheck", "t_recheck"}

\* positions of isolation proper: no re-verification has started
IsolationPCs ==
  {"for_batch", "rb_batch", "rb_for_sub", "rb_sub", "rb_for_one", "rb_one",
   "rb_return", "t_while", "t_batch", "t_for_sub", "t_sub", "t_for_one",
   "t_one", "t_mega", "t_end", "m_prompt", "t_prompt"}

InExactlyOne(p) == In(p, safe) # In(p, failed)

\* one culprit, a deterministic oracle, no pause and no fault
SingleCulprit == env.det /\ env.allow = {} /\ Cardinality(env.Bad) = 1

Culprit == CHOOSE x \in env.Bad : TRUE

\* positions after the loop of turbo_batch_mode
TurboEnded ==
  {"t_end", "t_prompt", "t_recheck_for", "t_recheck", "t_summary",
   "m_prompt", "m_recheck_for", "m_recheck", "m_summary", "done"}

\* the oracle passes every trial, no pause and no fault
AlwaysPass == env.det /\ env.Bad = {} /\ env.allow = {}

\* the baseline plugins a session records in the ledger at its start
Recorded ==
  IF TURBO_BATCH_MODE
    THEN Range(REQUIRED_PLUGINS \o OPTIONAL_PATCHES)
    ELSE Range(sanity_plugins(original_plugins))

\* positions inside the loop of turbo_batch_mode
TurboLoopPCs ==
  {"t_while", "t_batch", "t_for_sub", "t_sub", "t_for_one", "t_one", "t_mega"}

\* a deterministic oracle, no key press, no write or launch failure
NoEvents == env.det /\ env.allow = {}

\* isolation has ended and no re-verification trial has been made
IsolationEnded ==
  \/ ~TURBO_BATCH_MODE /\ pc \in {"summary", "done"}
  \/ TURBO_BATCH_MODE /\ (pc = "t_end" \/ (mega_passed /\ trial.kind = "mega"))

\* positions of the re-verification loop, and after it
RecheckPCs == {"m_recheck_for", "m_recheck", "t_recheck_for", "t_recheck"}

AfterRecheckPCs == {"m_summary", "t_summary", "done"}

\* the lower-cased keys of a list
keys(s) == {lower(p) : p \in Range(s)}

\* no two entries of the list have the same lower-cased key
NoDupKeys(s) == \A a, b \in DOMAIN s : lower(s[a]) = lower(s[b]) => a = b

\* the priority group of an entry of a load list: required, optional, safe,
\* partition under test
rank(p, safe_) ==
  IF In(p, REQUIRED_PLUGINS) THEN 1
  ELSE IF In(p, OPTIONAL_PATCHES) THEN 2
  ELSE IF In(p, safe_) THEN 3
  ELSE 4

\* the candidates that are in neither safe nor failed_
unclassified(safe_, failed_) ==
  {p \in Range(to_test \o patch_plugins) : ~In(p, safe_) /\ ~In(p, failed_)}

(***************************************************************************)
(* C1.  During isolation (run_batch and turbo_batch_mode, before any       *)
(* re-verification) no plugin id is in both Safe and Failed.               *)
(* Stated on the exact ids; it fails in turbo_batch_mode, where an         *)
(* optional patch found in the order file is put in safe by line 799 and   *)
(* is also a candidate (it carries a patch keyword), so that its crashed   *)
(* singleton trial appends it to failed.                                   *)
(***************************************************************************)
C1_SafeFailedDisjoint ==
  pc \in IsolationPCs => Range(safe) \cap Range(failed) = {}

(***************************************************************************)
(* C2.  A trial that is Paused and then Resumed leaves Safe, Failed and    *)
(* Tested as they were before the trial.  It fails below batch level,      *)
(* where the resumed pause sets the crash flag.                            *)
(***************************************************************************)
C2_PauseKeepsLedger ==
  [][(pc \in TrialPCs /\ trial'.outcome = "PausedResume")
        => ledger' = ledger]_vars

(***************************************************************************)
(* C3.  After a trial is Paused and Resumed the next trial attempt is on   *)
(* the same partition with the same load list.  It fails below batch       *)
(* level, where the loop moves on.                                         *)
(***************************************************************************)
C3_ResumeRetriesSamePartition ==
  [][(pc \in TrialPCs /\ trial.outcome = "PausedResume")
        => /\ trial'.kind = trial.kind
           /\ trial'.part = trial.part
           /\ trial'.load = trial.load]_vars

(***************************************************************************)
(* C4.  When run_batch(batch) returns, every id of batch is in exactly     *)
(* one of Safe and Failed, whatever the trial outcomes were, launch        *)
(* failures included (the order file being writable).  It fails when       *)
(* launch_game returns False: run_batch returns or breaks out of its loop. *)
(***************************************************************************)
C4_BatchClassifiedAtReturn ==
  (pc = "rb_return" /\ "write" \notin env.allow)
     => \A p \in Range(batch) : InExactlyOne(p)

(***************************************************************************)
(* C5.  With a deterministic oracle that crashes iff the load list holds   *)
(* X, and no pause and no I/O fault, isolating a batch that holds X ends   *)
(* with Failed = {X} and Safe holding the other members (plus baseline):   *)
(* at the return of run_batch for the batch of X, and at the end of the    *)
(* loop of turbo_batch_mode for all the candidates.                        *)
(* It fails for a candidate whose lower-cased name is that of a required   *)
(* plugin (the subject of C31): lines 655-661 drop it from the load list,  *)
(* the oracle never sees it and it is committed to safe.                   *)
(***************************************************************************)
C5_SingleCulpritIsolated ==
  SingleCulprit =>
    /\ (pc = "rb_return" /\ Culprit \in Range(batch)) =>
          /\ Range(failed) = {Culprit}
          /\ \A p \in Range(batch) \ {Culprit} : In(p, safe)
          /\ ~In(Culprit, safe)
    /\ (TURBO_BATCH_MODE /\ pc \in TurboEnded) =>
          /\ Range(failed) = {Culprit}
          /\ Range(safe) = Range(REQUIRED_PLUGINS \o OPTIONAL_PATCHES)
                             \cup (Candidates(original_plugins) \ {Culprit})

(***************************************************************************)
(* C6.  With an oracle that always passes (and no pause and no fault),     *)
(* run_batch(batch) makes exactly one trial, of the whole batch, and goes  *)
(* to its return with the batch appended to Safe in order and Failed       *)
(* unchanged.                                                              *)
(***************************************************************************)
C6_AlwaysPassOneTrial ==
  [][(AlwaysPass /\ pc = "rb_batch")
       => /\ pc' = "rb_return"
          /\ trial'.kind = "batch" /\ trial'.part = batch
          /\ trial'.outcome = "Passed"
          /\ safe' = safe \o batch
          /\ failed' = failed]_vars

\* run_batch has returned from a passed batch of five plugins
C6_Witness ==
  /\ AlwaysPass /\ pc = "rb_return" /\ Len(batch) = 5
  /\ trial.kind = "batch" /\ trial.outcome = "Passed"
  /\ SubSeq(safe, Len(safe) - 4, Len(safe)) = batch

(***************************************************************************)
(* C7.  When a session completes normally (no Quit, no Revert), then       *)
(* |Safe| + |Failed| = |Tested| = |initial candidate set|, the candidates  *)
(* being counted together with the baseline plugins the session itself     *)
(* records in the ledger at its start.                                     *)
(* It fails when launch_game returns False (run_batch returns and the      *)
(* batch is never counted, see C4) and in turbo_batch_mode when an         *)
(* optional patch is listed both in safe and in failed (see C1).           *)
(***************************************************************************)
C7_Conservation ==
  pc = "done" =>
     /\ Len(safe) + Len(failed) = Len(tested)
     /\ Len(tested) = Cardinality(Recorded \cup Candidates(original_plugins))

(***************************************************************************)
(* C8.  After every step of either mode Tested = Safe \cup Failed (as sets *)
(* of ids), and Tested never loses an element: an id that re-verification  *)
(* moves from Failed to Safe stays in Tested.                              *)
(***************************************************************************)
C8_TestedIsSafeOrFailed ==
  [][/\ Range(tested') = Range(safe') \cup Range(failed')
     /\ Range(tested) \subseteq Range(tested')]_vars

\* a session has ended after a passed re-verification trial: the plugin has
\* moved from failed to safe and is still in tested
C8_Witness ==
  /\ pc = "done" /\ trial.kind = "recheck" /\ trial.outcome = "Passed"
  /\ In(trial.part[1], safe) /\ ~In(trial.part[1], failed)
  /\ In(trial.part[1], tested)

(***************************************************************************)
(* C9.  In turbo_batch_mode a mega trial that passes is a trial of         *)
(* turbo_remaining, commits all of it to Safe, and ends isolation: the     *)
(* loops are never re-entered and the only trial attempts that follow are  *)
(* re-verification trials.                                                 *)
(***************************************************************************)
C9_MegaPassEndsIsolation ==
  [][/\ (pc = "t_mega" /\ trial'.outcome = "Passed")
          => /\ trial'.kind = "mega" /\ trial'.part = turbo_remaining
             /\ Range(turbo_remaining) \subseteq Range(safe')
             /\ mega_passed'
     /\ (mega_passed /\ pc \in TrialPCs) => trial'.kind = "recheck"
     /\ mega_passed => pc' \notin TurboLoopPCs]_vars

\* a mega trial has just passed while a plugin of the current sub-batch was
\* still to be tried alone; its plugins are in safe and a re-verification
\* is offered
C9_Witness ==
  /\ mega_passed /\ trial.kind = "mega" /\ trial.outcome = "Passed"
  /\ pc = "m_prompt"
  /\ trial.j < Len(Slice(trial.batch, trial.i,
                         trial.i + get_batch_size(Len(trial.batch))))
  /\ Range(trial.part) \subseteq Range(safe)

(***************************************************************************)
(* C10. In turbo_batch_mode a mega trial that crashes leaves Safe, Failed, *)
(* Tested and remaining unchanged, and the next trial attempt is the       *)
(* singleton of the next plugin of the current sub-batch; when the         *)
(* sub-batch is exhausted it is the next sub-batch of the batch, and when  *)
(* the batch is exhausted the next batch of the plugins that were in the   *)
(* mega trial: no plugin is skipped.                                       *)
(***************************************************************************)
C10_MegaCrashGoesOn ==
  [][/\ (pc = "t_mega" /\ trial'.outcome = "Crashed")
          => ledger' = ledger /\ remaining' = remaining
     /\ (trial.kind = "mega" /\ trial.outcome = "Crashed" /\ pc \in TrialPCs)
          => LET ss == get_batch_size(Len(trial.batch))
                 sub_t == Slice(trial.batch, trial.i, trial.i + ss)
             IN IF trial.j < Len(sub_t)
                  THEN /\ trial'.kind = "one"
                       /\ trial'.part = <<sub_t[trial.j + 1]>>
                  ELSE IF trial.i + ss < Len(trial.batch)
                    THEN /\ trial'.kind = "sub"
                         /\ trial'.part =
                              Slice(trial.batch, trial.i + ss, trial.i + 2 * ss)
                    ELSE /\ trial'.kind = "batch"
                         /\ trial'.part = Slice(trial.part, 0, BATCH_SIZE)]_vars

\* a mega trial has crashed after the first plugin of a sub-batch of two,
\* and the singleton trial of the second plugin is next
C10_Witness ==
  /\ pc = "t_one" /\ trial.kind = "mega" /\ trial.outcome = "Crashed"
  /\ Len(sub) = 2 /\ j = trial.j + 1 /\ j = 2
  /\ failed # <<>>

(***************************************************************************)
(* C11. With a deterministic oracle, no pause and no fault, a session      *)
(* ends isolation (before any re-verification) with the same Failed set    *)
(* and the same Safe candidates whether turbo_batch_mode is on or off:     *)
(* in both modes they are those of plain_session, the result of the        *)
(* session with turbo_batch_mode off.                                      *)
(* It holds for the oracles that crash on the plugins of a set Bad alone;  *)
(* it fails for an oracle with a missing-master rule (B.esp crashes        *)
(* unless C.esp is loaded): after A.esp has failed, the mega trial loads   *)
(* B.esp together with C.esp and commits both, whereas run_batch tries     *)
(* B.esp before C.esp is in safe and marks it Failed.                      *)
(***************************************************************************)
C11_TurboSameResult ==
  (NoEvents /\ IsolationEnded) =>
     LET plain == plain_session(original_plugins, BATCH_SIZE)
         cands == Candidates(original_plugins)
     IN /\ Range(failed) = Range(plain.failed)
        /\ Range(safe) \cap cands = Range(plain.safe) \cap cands

(***************************************************************************)
(* C12. An id whose re-verification trial has Passed is never in both Safe *)
(* and Failed: it leaves Failed no later than the step that adds it to     *)
(* Safe.                                                                   *)
(* It fails: line 1007 (1084) appends the id to safe at once, and failed   *)
(* is replaced by refailed only after the whole loop, at line 1008 (1085). *)
(***************************************************************************)
C12_MigrationIsAtomic ==
  (trial.kind = "recheck" /\ trial.outcome = "Passed")
     => ~(In(trial.part[1], safe) /\ In(trial.part[1], failed))

(***************************************************************************)
(* C13. When the operator accepts the re-test (and no write or launch      *)
(* failure occurs), the plugins of failed get one re-verification trial    *)
(* each, in order and none twice; the trial loads the plugin on top of the *)
(* baseline and safe (the load list holds its lower-cased name), without   *)
(* any other plugin that is still failed or still to be re-verified; a     *)
(* plugin whose trial Passed is in safe and, once the pass is over, not in *)
(* failed; a plugin whose trial did not pass stays in failed.              *)
(***************************************************************************)
C13_ReverifiedOnce ==
  faults = 0 =>
    /\ pc \in RecheckPCs =>
         /\ Len(verified) = k - 1
         /\ \A x \in 1..(k - 1) :
              /\ verified[x].plugin = failed[x]
              /\ IF verified[x].outcome = "Passed"
                   THEN In(failed[x], safe) /\ ~In(failed[x], refailed)
                   ELSE In(failed[x], refailed)
         /\ k > 1 =>
              /\ trial.kind = "recheck" /\ trial.part = <<failed[k - 1]>>
              /\ \E q \in Range(trial.load) : lower(q) = lower(failed[k - 1])
              /\ \A p \in Range(trial.load) :
                   \/ In(p, REQUIRED_PLUGINS \o OPTIONAL_PATCHES)
                   \/ p = failed[k - 1]
                   \/ /\ In(p, safe)
                      /\ ~In(p, refailed)
                      /\ ~In(p, SubSeq(failed, k, Len(failed)))
    /\ (pc \in AfterRecheckPCs /\ verified # <<>>) =>
         /\ \A x, y \in DOMAIN verified :
              verified[x].plugin = verified[y].plugin => x = y
         /\ Range(failed) \subseteq {verified[x].plugin : x \in DOMAIN verified}
         /\ \A x \in DOMAIN verified :
              IF verified[x].outcome = "Passed"
                THEN /\ In(verified[x].plugin, safe)
                     /\ ~In(verified[x].plugin, failed)
                ELSE In(verified[x].plugin, failed)

\* a pass over two failed plugins is over: one has passed, the other has
\* crashed again
C13_Witness ==
  /\ faults = 0 /\ pc = "done" /\ Len(verified) = 2
  /\ verified[1].outcome = "Passed" /\ verified[2].outcome = "Crashed"
  /\ In(verified[1].plugin, safe) /\ failed = <<verified[2].plugin>>

(***************************************************************************)
(* C14. With a deterministic oracle, after an accepted re-verification     *)
(* pass (no write or launch failure, no key press during the pass) no      *)
(* false failure is left in failed: every plugin still in failed crashes   *)
(* the oracle when loaded alone on top of the baseline and the final safe. *)
(* It fails when a failed plugin needs another failed plugin that comes    *)
(* later in failed and passes its own re-verification: the trial of the    *)
(* first is made on the safe of that moment (lines 972-976), not on the    *)
(* final safe, and the loop never comes back to it.                        *)
(***************************************************************************)
C14_FalseFailureMigrates ==
  (/\ env.det /\ faults = 0
   /\ pc \in AfterRecheckPCs /\ verified # <<>>
   /\ \A x \in DOMAIN verified : verified[x].outcome \in {"Passed", "Crashed"})
   => \A p \in Range(failed) :
        crashes(recheck_order(original_plugins, safe, p))

(***************************************************************************)
(* C15. A trial whose launch fails (launch_game returns False) is          *)
(* classified Crashed, at batch, sub-batch and singleton level of          *)
(* run_batch and turbo_batch_mode: a batch is split into sub-batches, a    *)
(* sub-batch into singletons (a sub-batch of one plugin may be marked      *)
(* Failed at once), a singleton is marked Failed.                          *)
(* It fails at every level: run_batch returns or breaks out of its loop,   *)
(* turbo_batch_mode breaks out of its while loop or goes on with the next  *)
(* sub-batch or plugin, and nothing is classified.                         *)
(***************************************************************************)
C15_LaunchFailureIsCrash ==
  [][(pc \in {"rb_batch", "rb_sub", "rb_one", "t_batch", "t_sub", "t_one"}
        /\ trial'.outcome = "LaunchFail")
       => CASE trial'.kind = "batch" ->
                 pc' \in {"rb_for_sub", "t_for_sub"} /\ i' = 0
            [] trial'.kind = "sub" ->
                 \/ pc' \in {"rb_for_one", "t_for_one"} /\ j' = 1
                 \/ Len(sub) = 1 /\ In(sub[1], failed')
            [] trial'.kind = "one" -> In(trial'.part[1], failed')]_vars

(***************************************************************************)
(* C16. When the order file cannot be written for a trial, only that trial *)
(* is skipped: Safe, Failed and Tested (and remaining) are unchanged and   *)
(* the loop goes on with the next partition, at batch, sub-batch and       *)
(* singleton level of run_batch and turbo_batch_mode.                      *)
(* It fails at batch level of turbo_batch_mode, where line 822 breaks out  *)
(* of the while loop and isolation ends.                                   *)
(***************************************************************************)
C16_WriteFailureSkipsOneTrial ==
  [][(pc \in {"rb_batch", "rb_sub", "rb_one", "t_batch", "t_sub", "t_one"}
        /\ trial'.outcome = "WriteFail")
       => /\ ledger' = ledger /\ remaining' = remaining
          /\ CASE pc = "rb_batch" -> pc' = "rb_return"
               [] pc = "t_batch" -> pc' = "t_while"
               [] pc = "rb_sub" ->
                    pc' = "rb_for_sub" /\ i' = i + get_batch_size(Len(batch))
               [] pc = "t_sub" ->
                    pc' = "t_for_sub" /\ i' = i + get_batch_size(Len(batch))
               [] pc = "rb_one" -> pc' = "rb_for_one" /\ j' = j + 1
               [] pc = "t_one" -> pc' = "t_for_one" /\ j' = j + 1]_vars

(***************************************************************************)
(* C17. Every trial ends with the external process terminated, whatever    *)
(* its outcome: when a trial of the oracle has ended (launch failure,      *)
(* Passed, Crashed, Paused, or the exit from the pause menu) no process of *)
(* the game is found.                                                      *)
(* wait_and_check_crash calls force_close_game on each of its return paths *)
(* and check_for_manual_pause calls it before the menu, yet it fails:     *)
(* force_close_game kills what get_game_pid finds at that moment,          *)
(* and the process of an instance that shows up after the grace loop has   *)
(* given up is found by nobody.                                            *)
(***************************************************************************)
C17_TrialEndsTerminated ==
  (game.pc \in {"idle", "exited"} /\ game.verdict # "none")
     => (game.closed \/ game.verdict = "LaunchFail") /\ game.live = 0

(***************************************************************************)
(* C18. Trials are strictly sequential: a step that calls launch_game      *)
(* starts from a state with no instance of an earlier trial, neither one   *)
(* whose process is found nor one that is still starting.                  *)
(* It fails for the reason of C17: launch_game itself looks for no earlier *)
(* instance, and the trial before it may have left one.                    *)
(***************************************************************************)
C18_LaunchesSequential ==
  [][game'.trials = game.trials + 1
       => game.live = 0 /\ game.starting = 0]_vars

(***************************************************************************)
(* C19. When a trial of the oracle has ended, it is Passed iff a poll of   *)
(* the grace loop (one of the first 30) found the process, no later poll   *)
(* found it missing and no key was pressed; it is Crashed iff the 30 polls *)
(* of the grace loop found no process or a later poll found it missing.    *)
(***************************************************************************)
C19_OracleVerdict ==
  (game.pc \in {"idle", "exited"} /\ game.verdict \notin {"none", "LaunchFail"})
     => /\ game.verdict = "Passed"
             <=> (game.seen /\ ~game.gone /\ ~game.key)
        /\ game.verdict = "Crashed"
             <=> ((~game.seen /\ game.polls = GRACE_POLLS) \/ game.gone)
        /\ game.seen => game.polls < GRACE_POLLS

\* A trial passes whose process was found by the last poll of the grace
\* loop only and by every poll of the deadline loop.
C19_Witness ==
  /\ game.pc = "idle"
  /\ game.verdict = "Passed"
  /\ game.polls = GRACE_POLLS - 1
  /\ game.ticks > 0

(***************************************************************************)
(* C20. If the order file or the game executable is missing at startup,    *)
(* the program ends before any trial: at every moment of such a run no     *)
(* trial has been made (neither the sanity trial nor a trial of the        *)
(* session), the ledger is empty, nothing has written the order file, and  *)
(* finalize_load_order, the final order assembly, has not been called.     *)
(***************************************************************************)
C20_MissingFileAborts ==
  (~main.plugin_file \/ ~main.game_exe)
     => /\ pc \in {"main", "returned", "end"}
        /\ trial = NoTrial
        /\ main.sanity = "none"
        /\ game = NoGame
        /\ ledger = <<<<>>, <<>>, <<>>>>
        /\ ~main.restored
        /\ disk.enabled = original_plugins /\ disk.removed = <<>>
        /\ ~main.finalized
        /\ pc # "main" => ~main.finalize_needed

\* The order file exists, the executable does not, and the program has
\* ended.
C20_Witness ==
  /\ main.plugin_file /\ ~main.game_exe
  /\ original_plugins # <<>>
  /\ pc = "end"

(***************************************************************************)
(* C21. The load list of every trial whose order file is written holds no  *)
(* two entries with the same lower-cased key, holds exactly the keys of    *)
(* Required, Optional, Safe as of the start of the trial and the partition *)
(* under test, and lists them in that priority order.  In the trials of    *)
(* isolation (batch, sub-batch, single id, mega) it is the first-          *)
(* occurrence deduplication of Required ++ Optional ++ safe ++ partition;  *)
(* a re-verification trial lists the Safe ids in the order of the original *)
(* file.                                                                   *)
(***************************************************************************)
C21_LoadListIsDedupedPrefix ==
  [][(pc \in TrialPCs /\ trial'.outcome # "WriteFail")
       => LET load == trial'.load
              all_ == REQUIRED_PLUGINS \o OPTIONAL_PATCHES \o safe
                        \o trial'.part
          IN /\ NoDupKeys(load)
             /\ keys(load) = keys(all_)
             /\ \A a, b \in DOMAIN load :
                  a < b => rank(load[a], safe) <= rank(load[b], safe)
             /\ trial'.kind # "recheck" => load = dedup(all_)]_vars

\* A later sub-batch of a crashed batch is trialled on a load list that
\* holds an id confirmed by an earlier sub-batch of the same batch, and from
\* which the case variant of a required id, itself confirmed earlier, has
\* been dropped.
C21_Witness ==
  /\ trial.kind = "sub"
  /\ trial.i > 0
  /\ trial.outcome # "WriteFail"
  /\ In("knights.esp", trial.batch)
  /\ In("knights.esp", safe)
  /\ ~In("knights.esp", trial.load)
  /\ \E p \in Range(trial.batch) :
       p # "knights.esp" /\ In(p, trial.load) /\ ~In(p, trial.part)

(***************************************************************************)
(* C22, as amended.  On a pause during a trial of the session, choice V    *)
(* writes the original order file back (the backup made at startup, with   *)
(* every candidate enabled, not a baseline-only order) and ends the        *)
(* program; choice Q ends it and leaves the order file as the trial wrote  *)
(* it.  Either choice leaves the ledger as it was, and from the exit no    *)
(* further step is taken: no trial, no change of the ledger, no            *)
(* finalize_load_order.                                                    *)
(***************************************************************************)
C22_RevertRestoresOriginal ==
  [][/\ (pc \in TrialPCs /\ trial'.outcome = "PausedRevert")
          => /\ disk'.enabled = original_plugins
             /\ disk'.removed = <<>>
             /\ pc' = "exited"
             /\ ledger' = ledger
     /\ (pc \in TrialPCs /\ trial'.outcome = "PausedQuit")
          => /\ disk'.enabled = trial'.load
             /\ pc' = "exited"
             /\ ledger' = ledger
     /\ pc # "exited"]_vars

\* The program has ended on choice V after a candidate was confirmed safe,
\* and the file written back enables a plugin that is not of the baseline.
C22_Witness ==
  /\ pc = "exited"
  /\ trial.outcome = "PausedRevert"
  /\ disk.enabled = original_plugins
  /\ \E p \in Range(safe) :
       ~In(p, REQUIRED_PLUGINS \o OPTIONAL_PATCHES)
  /\ \E p \in Range(disk.enabled) : ~In(p, safe)

(***************************************************************************)
(* C22, as stated.  On a pause, choice V restores the baseline-only order  *)
(* (required and optional plugins, with or without the plugins confirmed   *)
(* safe so far) to the order file and ends the program; choice Q ends it   *)
(* without touching the order file; after either no further step is taken. *)
(***************************************************************************)
C22_RevertRestoresBaseline ==
  [][/\ (pc \in TrialPCs /\ trial'.outcome = "PausedRevert")
          => /\ disk'.enabled \in {dedup(REQUIRED_PLUGINS \o OPTIONAL_PATCHES),
                                   load_order(safe, <<>>)}
             /\ pc' = "exited"
             /\ ledger' = ledger
     /\ (pc \in TrialPCs /\ trial'.outcome = "PausedQuit")
          => /\ disk'.enabled = trial'.load
             /\ pc' = "exited"
             /\ ledger' = ledger
     /\ pc # "exited"]_vars

(***************************************************************************)
(* C23. No candidate is silently dropped: every entry of the original      *)
(* order file with an .esp or .esm extension, in any letter case, that is  *)
(* not a required plugin is placed in exactly one of to_test and           *)
(* patch_plugins, and is in tested when the session has ended normally     *)
(* with no write or launch failure.                                        *)
(* It fails: filter_plugins keeps only names that end with ".esp", so a    *)
(* master file (.esm) without a patch keyword is placed in neither list.   *)
(***************************************************************************)
C23_NoCandidateDropped ==
  \A p \in Range(original_plugins) :
    (is_esp_or_esm(p) /\ ~In(p, REQUIRED_PLUGINS))
      => /\ In(p, initial_to_test(original_plugins, <<>>, <<>>, <<>>))
              # In(p, initial_patch_plugins(original_plugins, <<>>, <<>>, <<>>))
         /\ (pc = "done" /\ faults = 0) => In(p, tested)

(***************************************************************************)
(* C24. When the program has ended after a session that completed          *)
(* normally, and the operator did not choose to revert to the original     *)
(* file, the order file lists every id of failed in its removed block and  *)
(* enables none of them.                                                   *)
(* It fails: finalize_load_order takes the plugins to remove from the      *)
(* latest quarantine session, not from failed, so after choice E nothing   *)
(* is added to the removed block; and a re-verification trial overwrites   *)
(* the file of lines 1029-1037 with its load list, which enables the       *)
(* plugin under trial.                                                     *)
(***************************************************************************)
C24_FailedIsRemoved ==
  (pc = "end" /\ main.sanity = "passed" /\ original_plugins # <<>>
     /\ disk.choice # "r")
     => \A p \in Range(failed) : In(p, disk.removed) /\ ~In(p, disk.enabled)

(***************************************************************************)
(* C25. A trial of a batch, of a sub-batch or of a single plugin whose     *)
(* partition holds one id and that is classified Crashed puts that id in   *)
(* failed in the same step: no second trial of the same single id is made. *)
(* It fails: run_batch has no such case for a batch of one id (the id is   *)
(* trialled again as a sub-batch), and turbo_batch_mode has none for a     *)
(* batch nor for a sub-batch of one id.                                    *)
(***************************************************************************)
C25_SingletonCrashIsFinal ==
  [][(/\ pc \in {"rb_batch", "rb_sub", "rb_one", "t_batch", "t_sub", "t_one"}
      /\ Len(trial'.part) = 1
      /\ trial'.outcome = "Crashed")
       => In(trial'.part[1], failed')]_vars

(***************************************************************************)
(* C26, as amended.  When the trial of a sub-batch of more than one id is  *)
(* classified Crashed, the sub-batch is not split again: the ledger is     *)
(* left as it is and the loop over its plugins is entered, and every trial *)
(* of that loop is the trial of one plugin, sub[j], whatever               *)
(* get_batch_size(len(sub)) is.                                            *)
(***************************************************************************)
C26_CrashedSubGoesToSingles ==
  [][/\ (pc \in {"rb_sub", "t_sub"} /\ trial'.outcome = "Crashed"
           /\ Len(sub) > 1)
          => /\ pc' \in {"rb_for_one", "t_for_one"}
             /\ j' = 1
             /\ ledger' = ledger
     /\ pc \in {"rb_one", "t_one"} => trial'.part = <<sub[j]>>]_vars

\* A plugin of a crashed sub-batch of five plugins, which chunks of
\* get_batch_size(5) = 2 would split in three, is trialled alone.
C26_Witness ==
  /\ trial.kind = "one"
  /\ Len(sub) = 5
  /\ get_batch_size(Len(sub)) = 2
  /\ trial.part = <<sub[3]>>

(***************************************************************************)
(* C26, as stated.  When the trial of a sub-batch of more than one id is   *)
(* classified Crashed, the sub-batch is split again into consecutive       *)
(* chunks of get_batch_size(len(sub)) ids and each trial that follows is   *)
(* the trial of one of these chunks.                                       *)
(***************************************************************************)
C26_CrashedSubIsSplitAgain ==
  [][(pc \in {"rb_one", "t_one"})
       => trial'.part \in Range(chunk(sub, get_batch_size(Len(sub))))]_vars

(***************************************************************************)
(* C27. get_batch_size(n) is 25 for n >= 200, 20 for n >= 150, 15 for      *)
(* n >= 100, 10 for n >= 50, 5 for n >= 20, 3 for n >= 10, 2 for n >= 5    *)
(* and 1 otherwise; for every n >= 1 it lies between 1 and n, and it is    *)
(* less than n for every n >= 2.                                           *)
(***************************************************************************)
C27_StepFunction ==
  step.sub_size # 0 =>
    LET n == step.size
        r == step.sub_size
    IN /\ r = CASE n >= 200 -> 25
                [] n >= 150 /\ n < 200 -> 20
                [] n >= 100 /\ n < 150 -> 15
                [] n >= 50 /\ n < 100 -> 10
                [] n >= 20 /\ n < 50 -> 5
                [] n >= 10 /\ n < 20 -> 3
                [] n >= 5 /\ n < 10 -> 2
                [] OTHER -> 1
       /\ 1 <= r /\ r <= n
       /\ n >= 2 => r < n

\* get_batch_size has been called on the lowest size of its highest step.
C27_Witness == step.size = 200 /\ step.sub_size = 25

(***************************************************************************)
(* C28. After a crashed batch trial the sub-batches that are trialled are  *)
(* the consecutive chunks of get_batch_size(len(batch)) ids of the batch,  *)
(* in batch order and none left out: the first is the chunk at offset 0,   *)
(* each later one the chunk next to that of the trial before, and the loop *)
(* ends when the offset has passed the batch.  In run_batch, for a batch   *)
(* of fewer than 5 ids, each chunk is the single id batch[i]; the id is    *)
(* appended to safe iff its trial Passed, so safe lists the ids in batch   *)
(* order, and it is in failed when its trial Crashed.                      *)
(***************************************************************************)
C28_CrashedBatchIsChunked ==
  [][LET size == get_batch_size(Len(batch))
     IN /\ (pc \in {"rb_sub", "t_sub"})
             => /\ trial'.part = chunk(batch, size)[(i \div size) + 1]
                /\ i = IF trial.kind = "batch" THEN 0 ELSE trial.i + size
        /\ (pc \in {"rb_for_sub", "t_for_sub"} /\ pc' \in {"rb_return", "t_while"})
             => i >= Len(batch)
        /\ (pc = "rb_sub" /\ Len(batch) < 5)
             => /\ trial'.part = <<batch[i + 1]>>
                /\ safe' = IF trial'.outcome = "Passed"
                             THEN Append(safe, batch[i + 1]) ELSE safe
                /\ trial'.outcome = "Crashed" => In(batch[i + 1], failed')]_vars

\* run_batch returns from a batch of four ids whose trial crashed: the
\* third id is the one in failed, and safe ends with the first, the second
\* and the fourth.
C28_Witness ==
  /\ ~TURBO_BATCH_MODE
  /\ pc = "rb_return"
  /\ Len(batch) = 4
  /\ trial.kind = "sub"
  /\ failed = <<batch[3]>>
  /\ Len(safe) >= 3
  /\ SubSeq(safe, Len(safe) - 2, Len(safe)) = <<batch[1], batch[2], batch[4]>>

(***************************************************************************)
(* C29. In turbo mode a single-plugin trial that classifies its plugin as  *)
(* failed is followed at once by a mega trial iff some candidate is in     *)
(* neither safe nor failed; the mega trial is on exactly these candidates, *)
(* each listed once, it is made once and not repeated, and a mega trial is *)
(* made at no other point: only in turbo mode and only right after a       *)
(* single-plugin trial whose plugin has just been put in failed.           *)
(***************************************************************************)
C29_MegaAfterEachFailure ==
  [][/\ (pc = "t_one" /\ trial'.outcome \in {"Crashed", "PausedResume"})
          => /\ In(sub[j], failed')
             /\ (pc' = "t_mega") <=> (unclassified(safe', failed') # {})
     /\ (pc = "t_mega")
          => /\ trial'.kind = "mega"
             /\ trial'.part # <<>>
             /\ Range(trial'.part) = unclassified(safe, failed)
             /\ Len(trial'.part) = Cardinality(unclassified(safe, failed))
             /\ pc' # "t_mega"
     /\ (pc \in TrialPCs /\ trial'.kind = "mega")
          => /\ pc = "t_mega" /\ TURBO_BATCH_MODE
             /\ trial.kind = "one"
             /\ trial.outcome \in {"Crashed", "PausedResume"}
             /\ In(trial.part[1], failed)
     /\ (pc' = "t_mega")
          => /\ pc = "t_one"
             /\ trial'.outcome \in {"Crashed", "PausedResume"}]_vars

\* A mega trial has been made right after a plugin failed on its own, and
\* it has crashed; it was on the rest of the batch and on later candidates
\* as well.
C29_Witness ==
  /\ TURBO_BATCH_MODE
  /\ trial.kind = "mega"
  /\ trial.outcome = "Crashed"
  /\ 1 <= trial.j /\ trial.j <= Len(sub)
  /\ In(sub[trial.j], failed)
  /\ Range(trial.part) \cap Range(safe) = {}
  /\ \E p \in Range(trial.part) : In(p, trial.batch)
  /\ \E p \in Range(trial.part) : ~In(p, trial.batch)

(***************************************************************************)
(* C30. Once shutdown_logging has returned, and after the process has      *)
(* exited, the log file holds every line that log was called with before   *)
(* the call of shutdown_logging, in the order of the calls.                *)
(***************************************************************************)
C30_ShutdownDrainsQueue ==
  logger.caller \in {"returned", "exited"}
    => logger.file = [n \in 1..logger.put |-> n]

(***************************************************************************)
(* C31. Membership in the ledger is by lower-cased key: safe never holds   *)
(* two entries with the same lower-cased key, no candidate (entry of       *)
(* to_test or patch_plugins) has the lower-cased key of a required or      *)
(* optional plugin, and no partition that is trialled holds such an entry. *)
(***************************************************************************)
C31_MembershipByKey ==
  /\ NoDupKeys(safe)
  /\ keys(to_test \o patch_plugins)
       \cap keys(REQUIRED_PLUGINS \o OPTIONAL_PATCHES) = {}
  /\ trial.kind \in {"batch", "sub", "one", "mega"}
       => keys(trial.part) \cap keys(REQUIRED_PLUGINS \o OPTIONAL_PATCHES) = {}

(***************************************************************************)
(* C32. With a deterministic oracle under which a trial crashes iff its    *)
(* load list holds a plugin of the fixed set Bad, safe holds no plugin of  *)
(* Bad in any state of the isolation of run_batch or turbo_batch_mode,     *)
(* whatever pauses, resumes and mega trials have happened.                 *)
(***************************************************************************)
C32_SafeHoldsNoBad ==
  (pc \in IsolationPCs /\ env.det /\ env.Dep = {})
    => Range(safe) \cap env.Bad = {}

(***************************************************************************)
(* C33. With a deterministic oracle under which a trial crashes iff its    *)
(* load list holds a plugin of the set Bad (of any number of candidates),  *)
(* a session without key press and without write or launch failure ends    *)
(* with failed holding exactly the plugins of Bad.                         *)
(***************************************************************************)
C33_FailedIsBad ==
  (pc = "done" /\ env.det /\ env.Dep = {} /\ env.allow = {})
    => Range(failed) = env.Bad

(***************************************************************************)
(* C34. The while loop of turbo_batch_mode ends with remaining empty: an   *)
(* iteration that runs to its end (the batch passed, or the loop over its  *)
(* sub-batches ended) with no write or launch failure so far has taken at  *)
(* least one plugin of its batch out of remaining, and whenever the loop   *)
(* is left, remaining is empty.                                            *)
(***************************************************************************)
C34_TurboLoopEndsEmpty ==
  [][/\ (/\ \/ pc = "t_for_sub" /\ pc' = "t_while"
            \/ pc = "t_batch" /\ pc' = "t_while" /\ trial'.outcome = "Passed"
         /\ faults' = 0)
          => \E p \in Range(batch) : ~In(p, remaining')
     /\ (TURBO_BATCH_MODE /\ pc \notin TurboEnded /\ pc' \in TurboEnded)
          => remaining' = <<>>]_vars

(***************************************************************************)
(* C35. When the program ends after a session that completed isolation     *)
(* (no Quit, no Revert, no abort at startup), finalize_load_order has been *)
(* called exactly once: with turbo_batch_mode off, after the loop of       *)
(* turbo_batch_mode ended, and after a passed mega trial.                  *)
(***************************************************************************)
C35_FinalizedOnce ==
  [][(pc = "done" /\ pc' = "end") => disk'.finalized = 1]_vars

C37_SanityBeforeCandidates ==
  [][/\ (\/ trial'.kind \in {"batch", "sub", "one", "mega", "recheck"}
         \/ safe' \o tested' \o failed' # <<>>
         \/ pc' \in IsolationPCs \cup {"isolate", "turbo"})
          => main'.sanity = "passed"
     /\ (main'.sanity = "passed" /\ main.sanity # "passed")
          => /\ pc \in {"sanity", "sanity_enforced"}
             /\ trial'.kind = "sanity" /\ trial'.outcome = "Passed"
             /\ Range(trial'.load) = Range(sanity_plugins(original_plugins))
             /\ main.enforced <=> (pc = "sanity_enforced")
     /\ (pc \in {"sanity", "sanity_enforced"} /\ trial'.outcome = "PausedResume")
          => pc' = pc /\ UNCHANGED ledger
     /\ (pc = "sanity" /\ trial'.outcome = "Crashed")
          => pc' = "enforce"
     /\ (pc = "enforce")
          => \/ pc' = "sanity_enforced" /\ main'.enforced
             \/ pc' = "returned" /\ ~main'.finalize_needed
     /\ (pc = "sanity_enforced" /\ trial'.outcome = "Crashed")
          => pc' = "returned" /\ ~main'.finalize_needed]_vars

\* A candidate trial has been made in a session whose first sanity trial
\* crashed and whose sanity trial under the enforced load order passed.
C37_Witness ==
  /\ main.enforced
  /\ main.sanity = "passed"
  /\ trial.kind = "batch"
  /\ trial.outcome \in {"Passed", "Crashed"}

(***************************************************************************)
(* C38. A poll of the deadline loop of wait_and_check_crash looks for a    *)
(* key press before it looks for the process: with a key press pending,    *)
(* the poll goes to the pause menu, also when the process is no longer     *)
(* there, and the trial then ends Paused or with the exit of the program,  *)
(* not Crashed.  The grace loop does not look for a key press: its polls   *)
(* leave a pending key press pending and never enter the pause menu.       *)
(***************************************************************************)
C38_KeyPressBeforeLiveness ==
  [][/\ (game.pc = "watch" /\ game.pending /\ game'.pc # "watch"
         /\ game'.verdict # "Passed")
          => /\ game'.pc = "menu"
             /\ game'.key /\ ~game'.gone /\ ~game'.pending
             /\ game'.verdict = "none"
     /\ (game.pc = "menu" /\ game'.pc # "menu")
          => game'.verdict \in {"Paused", "Exit"}
     /\ (game.pc = "grace")
          => /\ game'.pc \in {"grace", "watch", "idle"}
             /\ ~game'.key
             /\ game.pending => game'.pending]_vars

\* A trial has ended Paused although the process was already gone when the
\* key press was found.
C38_Witness ==
  /\ game.pc = "idle"
  /\ game.verdict = "Paused"
  /\ game.key /\ game.absent
  /\ game.seen /\ ~game.gone

==============================================================================
